---- MODULE Spec2Model ----
(***************************************************************************)
(* A model of aether-bytes: the AetherBytes orchestrator (src/index.ts),   *)
(* the analyzer (src/analyzer.ts), the compressor/decompressor             *)
(* (src/compression.ts), the code generator (src/generator.ts) and the     *)
(* event emitter (src/events.ts).                                          *)
(*                                                                         *)
(* Strings that the code converts (file contents, compressed payloads) are *)
(* sequences of UTF-16 code units, so that UTF-8 encoding, base64 and the  *)
(* TextDecoder are computed rather than assumed.  Path components, names   *)
(* and extensions are sequences of code units too (the code strips dots    *)
(* and replaces characters in them); artifact file names, event texts and  *)
(* option values that the code only copies or compares are TLA+ strings.   *)
(* An optional field (data, extra, types) is <<>> when absent and <<v>>    *)
(* when it holds v.                                                        *)
(***************************************************************************)
EXTENDS Integers, Sequences, FiniteSets, TLC

\* ------------------------------------------------------------------------
\* Bounds of the model
\* ------------------------------------------------------------------------

\* the collection never grows past this many entries (load/analyze guards)
MaxEntries == 2

\* a behaviour makes at most this many calls on the instance
MaxCalls == 4

\* the engine's limit on the number of arguments of one call, scaled down:
\* String.fromCharCode(...bytes) throws a RangeError above it
ArgLimit == 7

\* ------------------------------------------------------------------------
\* Optional values
\* ------------------------------------------------------------------------

None == <<>>

Some(v) == <<v>>

IsSome(o) == Len(o) = 1

Get(o) == o[1]

\* ------------------------------------------------------------------------
\* Text: UTF-8, base64, and the zlib container
\* ------------------------------------------------------------------------

BOM == 65279

ReplacementChar == 65533

\* pako's string2buf, called by deflate() on a string argument: UTF-8
\* encoding of code units below the surrogate range
Utf8Unit(c) ==
    IF c < 128 THEN <<c>>
    ELSE IF c < 2048 THEN <<192 + (c \div 64), 128 + (c % 64)>>
    ELSE <<224 + (c \div 4096), 128 + ((c \div 64) % 64), 128 + (c % 64)>>

RECURSIVE string2buf(_)
string2buf(s) ==
    IF s = <<>> THEN <<>> ELSE Utf8Unit(Head(s)) \o string2buf(Tail(s))

IsCont(b) == b >= 128 /\ b < 192

\* UTF-8 decoding of a byte sequence, an ill-formed byte giving U+FFFD
RECURSIVE Utf8Decode(_)
Utf8Decode(bs) ==
    IF bs = <<>> THEN <<>>
    ELSE IF bs[1] < 128 THEN <<bs[1]>> \o Utf8Decode(Tail(bs))
    ELSE IF bs[1] >= 192 /\ bs[1] < 224 /\ Len(bs) >= 2 /\ IsCont(bs[2])
        THEN <<(bs[1] - 192) * 64 + (bs[2] - 128)>>
                 \o Utf8Decode(SubSeq(bs, 3, Len(bs)))
    ELSE IF bs[1] >= 224 /\ bs[1] < 240 /\ Len(bs) >= 3
            /\ IsCont(bs[2]) /\ IsCont(bs[3])
        THEN <<(bs[1] - 224) * 4096 + (bs[2] - 128) * 64 + (bs[3] - 128)>>
                 \o Utf8Decode(SubSeq(bs, 4, Len(bs)))
    ELSE <<ReplacementChar>> \o Utf8Decode(Tail(bs))

\* new TextDecoder("utf-8").decode(bytes): ignoreBOM is false by default,
\* so a leading byte order mark is consumed and not part of the result
TextDecode(bs) ==
    LET s == Utf8Decode(bs)
    IN IF s # <<>> /\ s[1] = BOM THEN Tail(s) ELSE s

\* the zlib container of pako's deflate at level 9: the two header bytes
\* 0x78 0xDA, the payload (its entropy coding is not modelled), a checksum
ZHeader == <<120, 218>>

RECURSIVE ByteSum(_)
ByteSum(bs) == IF bs = <<>> THEN 1 ELSE (bs[1] + ByteSum(Tail(bs))) % 251

deflate(bs) == ZHeader \o bs \o <<ByteSum(bs)>>

\* pako 2 reports no error for an input that ends inside the header (the
\* empty input included): inflate returns undefined, which decodes to ""
Incomplete(zs) == Len(zs) < 2

WellFormed(zs) ==
    /\ Len(zs) >= 3
    /\ SubSeq(zs, 1, 2) = ZHeader
    /\ zs[Len(zs)] = ByteSum(SubSeq(zs, 3, Len(zs) - 1))

\* inflate throws on a header or a checksum that is wrong
InflateThrows(zs) == ~Incomplete(zs) /\ ~WellFormed(zs)

inflate(zs) == IF Incomplete(zs) THEN <<>> ELSE SubSeq(zs, 3, Len(zs) - 1)

\* the base64 alphabet, as code units
B64Char(i) ==
    IF i < 26 THEN 65 + i
    ELSE IF i < 52 THEN 97 + (i - 26)
    ELSE IF i < 62 THEN 48 + (i - 52)
    ELSE IF i = 62 THEN 43 ELSE 47

B64Pad == 61

IsB64Char(c) ==
    \/ c >= 65 /\ c <= 90
    \/ c >= 97 /\ c <= 122
    \/ c >= 48 /\ c <= 57
    \/ c = 43
    \/ c = 47

B64Index(c) ==
    IF c >= 65 /\ c <= 90 THEN c - 65
    ELSE IF c >= 97 /\ c <= 122 THEN c - 97 + 26
    ELSE IF c >= 48 /\ c <= 57 THEN c - 48 + 52
    ELSE IF c = 43 THEN 62 ELSE 63

\* btoa(String.fromCharCode(...bytes)): three bytes give four characters
RECURSIVE btoa(_)
btoa(bs) ==
    IF bs = <<>> THEN <<>>
    ELSE IF Len(bs) = 1 THEN
        <<B64Char(bs[1] \div 4), B64Char((bs[1] % 4) * 16), B64Pad, B64Pad>>
    ELSE IF Len(bs) = 2 THEN
        <<B64Char(bs[1] \div 4),
          B64Char((bs[1] % 4) * 16 + (bs[2] \div 16)),
          B64Char((bs[2] % 16) * 4), B64Pad>>
    ELSE
        <<B64Char(bs[1] \div 4),
          B64Char((bs[1] % 4) * 16 + (bs[2] \div 16)),
          B64Char((bs[2] % 16) * 4 + (bs[3] \div 64)),
          B64Char(bs[3] % 64)>> \o btoa(SubSeq(bs, 4, Len(bs)))

\* atob strips up to two trailing pad characters of a string whose length
\* is a multiple of four, and throws on a length of 4k+1 or on a character
\* outside the alphabet (the contents modelled hold no ASCII whitespace)
AtobBody(s) ==
    IF Len(s) % 4 = 0 /\ Len(s) > 0 /\ s[Len(s)] = B64Pad
    THEN IF s[Len(s) - 1] = B64Pad
         THEN SubSeq(s, 1, Len(s) - 2)
         ELSE SubSeq(s, 1, Len(s) - 1)
    ELSE s

CanAtob(s) ==
    LET b == AtobBody(s)
    IN /\ Len(b) % 4 # 1
       /\ \A i \in 1..Len(b) : IsB64Char(b[i])

RECURSIVE AtobBytes(_)
AtobBytes(b) ==
    IF Len(b) < 2 THEN <<>>
    ELSE LET i1 == B64Index(b[1])
             i2 == B64Index(b[2])
         IN IF Len(b) = 2 THEN <<i1 * 4 + (i2 \div 16)>>
            ELSE LET i3 == B64Index(b[3])
                 IN IF Len(b) = 3
                    THEN <<i1 * 4 + (i2 \div 16), (i2 % 16) * 16 + (i3 \div 4)>>
                    ELSE <<i1 * 4 + (i2 \div 16),
                           (i2 % 16) * 16 + (i3 \div 4),
                           (i3 % 4) * 64 + B64Index(b[4])>>
                             \o AtobBytes(SubSeq(b, 5, Len(b)))

atob(s) == AtobBytes(AtobBody(s))

\* compressor(data): deflate, then base64; rejects when a step throws
CompressorThrows(c) == Len(deflate(string2buf(c))) > ArgLimit

compressor(c) == btoa(deflate(string2buf(c)))

\* decompressor(data): atob, inflate, TextDecoder; rejects when atob or
\* inflate throws
DecompressorThrows(d) == ~CanAtob(d) \/ InflateThrows(atob(d))

decompressor(d) == TextDecode(inflate(atob(d)))

\* ------------------------------------------------------------------------
\* The file system the orchestrator reads
\* ------------------------------------------------------------------------

\* a path is its directory and its last component split at the dots; every
\* component is a string of code units
Path(dir, base) == [dir |-> dir, base |-> base]

\* path.join(directory, item.name); directory names hold no dot
join(d, base) == Path(d.dir \o <<d.base[1]>>, base)

StrA == <<97>>
StrB == <<98>>
StrC == <<99>>
StrX == <<120>>
StrT == <<116>>
StrU == <<117>>
StrSub == <<115, 117, 98>>
StrLocked == <<108, 111, 99, 107>>
StrGone == <<103, 111, 110, 101>>
StrMd == <<109, 100>>
StrTxt == <<116, 120, 116>>
StrTs == <<116, 115>>
Dot == 46

DirT == Path(<<>>, <<StrT>>)
DirSub == Path(<<StrT>>, <<StrSub>>)
DirU == Path(<<>>, <<StrU>>)
DirLocked == Path(<<StrU>>, <<StrLocked>>)
FileA == Path(<<StrT>>, <<StrA, StrMd>>)
FileB == Path(<<StrT>>, <<StrB, StrMd>>)
FileA2 == Path(<<StrT, StrSub>>, <<StrA, StrTxt>>)
FileC == Path(<<>>, <<StrC, StrTs>>)
FileX == Path(<<StrU>>, <<StrX, StrMd>>)
FileGone == Path(<<>>, <<StrGone, StrMd>>)

\* t/a.md holds "{n}", t/b.md a byte order mark and "a", t/sub/a.txt
\* "aaaaaa", c.ts is empty; u/x.md is a dangling link, u/lock cannot be
\* listed, gone.md does not exist
Directories == {DirT, DirSub, DirU, DirLocked}

ReadableFiles == {FileA, FileB, FileA2, FileC}

FileText(p) ==
    CASE p = FileA -> <<123, 110, 125>>
      [] p = FileB -> <<BOM, 97>>
      [] p = FileA2 -> <<97, 97, 97, 97, 97, 97>>
      [] OTHER -> <<>>

\* stat(src) throws for a path that is neither a file nor a directory
StatThrows(p) == p \notin Directories \cup ReadableFiles

\* readdir(directory, { withFileTypes: true })
ReaddirThrows(d) == d = DirLocked

Item(base, isDir) == [base |-> base, isDirectory |-> isDir]

readdir(d) ==
    CASE d = DirT -> <<Item(<<StrA, StrMd>>, FALSE), Item(<<StrB, StrMd>>, FALSE),
                       Item(<<StrSub>>, TRUE)>>
      [] d = DirSub -> <<Item(<<StrA, StrTxt>>, FALSE)>>
      [] d = DirU -> <<Item(<<StrX, StrMd>>, FALSE), Item(<<StrLocked>>, TRUE)>>
      [] OTHER -> <<>>

\* ------------------------------------------------------------------------
\* Events
\* ------------------------------------------------------------------------

Event(type, text, arg) == [type |-> type, text |-> text, arg |-> arg]

RECURSIVE CountType(_, _)
CountType(evs, type) ==
    IF evs = <<>> THEN 0
    ELSE (IF Head(evs).type = type THEN 1 ELSE 0) + CountType(Tail(evs), type)

\* ------------------------------------------------------------------------
\* Analyzer
\* ------------------------------------------------------------------------

IsWordChar(c) ==
    \/ c >= 48 /\ c <= 57
    \/ c >= 65 /\ c <= 90
    \/ c >= 97 /\ c <= 122
    \/ c = 95

IsSpaceChar(c) == c \in {9, 10, 11, 12, 13, 32}

At(s, i) == IF i >= 1 /\ i <= Len(s) THEN s[i] ELSE -1

\* the index after the longest run of word characters starting at i
RECURSIVE WordEnd(_, _)
WordEnd(s, i) == IF IsWordChar(At(s, i)) THEN WordEnd(s, i + 1) ELSE i

RECURSIVE SpaceEnd(_, _)
SpaceEnd(s, i) == IF IsSpaceChar(At(s, i)) THEN SpaceEnd(s, i + 1) ELSE i

\* /\{\{\s*(\w+)\s*\}\}/ anchored at i: the matched variable and the index
\* after the match, or next = 0
MatchDouble(s, i) ==
    LET j == SpaceEnd(s, i + 2)
        k == WordEnd(s, j)
        m == SpaceEnd(s, k)
    IN IF /\ At(s, i) = 123 /\ At(s, i + 1) = 123
          /\ k > j
          /\ At(s, m) = 125 /\ At(s, m + 1) = 125
       THEN [var |-> SubSeq(s, j, k - 1), next |-> m + 2]
       ELSE [var |-> <<>>, next |-> 0]

\* /\{(\w+)\}/ anchored at i
MatchSingle(s, i) ==
    LET k == WordEnd(s, i + 1)
    IN IF At(s, i) = 123 /\ k > i + 1 /\ At(s, k) = 125
       THEN [var |-> SubSeq(s, i + 1, k - 1), next |-> k + 1]
       ELSE [var |-> <<>>, next |-> 0]

\* "__proto__": on the plain object that the reducer fills, this key is the
\* accessor of Object.prototype, whose setter ignores a string
ProtoKey == <<95, 95, 112, 114, 111, 116, 111, 95, 95>>

\* acc[variable] = "string": the keys of acc after the assignment (every
\* key holds "string", the only value the reducer writes)
SetKey(acc, variable) == IF variable = ProtoKey THEN acc ELSE acc \cup {variable}

\* content.match(/.../g) reduced to the set of variables: the keys of types
RECURSIVE ScanVariables(_, _)
ScanVariables(s, i) ==
    IF i > Len(s) THEN {}
    ELSE LET d == MatchDouble(s, i)
             g == MatchSingle(s, i)
         IN IF d.next # 0 THEN SetKey(ScanVariables(s, d.next), d.var)
            ELSE IF g.next # 0 THEN SetKey(ScanVariables(s, g.next), g.var)
            ELSE ScanVariables(s, i + 1)

\* mutant: analyze without its test for the file's existence
AnalyzeThrowsNever(p) == FALSE

\* analyze() throws when exists(filepath) is false
AnalyzeThrows(p) == p \notin ReadableFiles

\* filepath.split(sep).pop()?.split(".")[0] || ""
NameOf(p) == IF p.base = <<>> THEN <<>> ELSE p.base[1]

\* path.extname: from the last dot of the last component, "" without one
\* or when the only dot leads the component
extname(p) ==
    IF Len(p.base) >= 2 /\ ~(Len(p.base) = 2 /\ p.base[1] = <<>>)
    THEN <<Dot>> \o p.base[Len(p.base)] ELSE <<>>

\* extname(filepath).slice(1)
ExtOf(p) == IF extname(p) = <<>> THEN <<>> ELSE Tail(extname(p))

\* genTypes is an optional boolean whose default is true; every variable
\* found has the type "string", so types is held as the set of its keys
\* the entry analyze returns for a file whose readFile gave content
analyzeContent(p, content, genTypes) ==
    [name |-> NameOf(p),
     ext |-> ExtOf(p),
     path |-> p,
     content |-> content,
     types |-> IF (IF IsSome(genTypes) THEN Get(genTypes) ELSE TRUE)
               THEN Some(ScanVariables(content, 1)) ELSE None,
     compressed |-> FALSE,
     data |-> None,
     extra |-> None]

analyze(p, genTypes) == analyzeContent(p, FileText(p), genTypes)

\* ------------------------------------------------------------------------
\* The orchestrator: class AetherBytes
\* ------------------------------------------------------------------------

VARIABLES
    entries,    \* this.entries
    files,      \* this.files, the artifacts recorded by generate
    disk,       \* the files written so far: [path, content]
    events,     \* the events emitted by the last call, in order
    ret,        \* the outcome of the last call
    op,         \* the last call and its arguments
    calls,      \* the number of calls made
    listeners,  \* the emitter's events field: the callbacks of each event name
    delivered,  \* the callbacks called by the last emit, with their argument
    arrays,     \* the Entry[] objects allocated, for calls that overlap
    stored,     \* the array of them that this.entries refers to
    tasks       \* the calls started and not awaited, each with its position

vars == <<entries, files, disk, events, ret, op, calls, listeners, delivered,
          arrays, stored, tasks>>

\* the event names of EventTypes
EventNames == {"error", "analyzed", "loaded", "compression", "generator"}

\* events = {}: no event name has a list of callbacks
NoListeners == [event \in EventNames |-> None]

\* every call counts against the bound on the length of a behaviour
Called == calls < MaxCalls /\ calls' = calls + 1

Returned(kind, val) == [kind |-> kind, val |-> val]

Range(s) == {s[i] : i \in 1..Len(s)}

\* ---- load ----

RECURSIVE GetFilesFromDirectory(_)
RECURSIVE WalkItems(_, _)

\* the for loop of getFilesFromDirectory over the items of one directory
WalkItems(d, items) ==
    IF items = <<>> THEN [files |-> <<>>, events |-> <<>>]
    ELSE LET it == Head(items)
             fullPath == join(d, it.base)
             first == IF it.isDirectory THEN GetFilesFromDirectory(fullPath)
                      ELSE [files |-> <<fullPath>>, events |-> <<>>]
             rest == WalkItems(d, Tail(items))
         IN [files |-> first.files \o rest.files,
             events |-> first.events \o rest.events]

GetFilesFromDirectory(d) ==
    IF ReaddirThrows(d)
    THEN [files |-> <<>>,
          events |-> <<Event("error", "Error reading directory", d)>>]
    ELSE WalkItems(d, readdir(d))

\* the first loop of load: every source resolved into files
RECURSIVE ResolveSources(_)
ResolveSources(sources) ==
    IF sources = <<>> THEN [files |-> <<>>, events |-> <<>>]
    ELSE LET src == Head(sources)
             first == IF StatThrows(src)
                      THEN [files |-> <<>>,
                            events |-> <<Event("error", "Error reading source", src)>>]
                      ELSE IF src \in Directories
                      THEN GetFilesFromDirectory(src)
                      ELSE [files |-> <<src>>, events |-> <<>>]
             rest == ResolveSources(Tail(sources))
         IN [files |-> first.files \o rest.files,
             events |-> first.events \o rest.events]

\* mutant: the extensions compared as they were given
normalizeNothing(ext) == ext

\* ext.replace(/^\./, "")
normalize(ext) == IF ext # <<>> /\ ext[1] = Dot THEN Tail(ext) ELSE ext

MapNormalize(exts) == [i \in 1..Len(exts) |-> normalize(exts[i])]

\* includeExtNormalized.filter(ext => excludeExtNormalized.includes(ext)),
\* for options that carry both lists
Intersection(options) ==
    LET excl == Range(MapNormalize(Get(options.excludeExt)))
        Both(e) == e \in excl
    IN SelectSeq(MapNormalize(Get(options.includeExt)), Both)

Conflict(options) ==
    /\ IsSome(options.includeExt)
    /\ IsSome(options.excludeExt)
    /\ Len(Intersection(options)) > 0

\* mutant: a filter that strips two leading dots of the extensions listed
PassesFilterDots(file, options) ==
    LET ext == normalize(extname(file))
        Twice(exts) == Range(MapNormalize(MapNormalize(exts)))
    IN /\ IsSome(options.includeExt) => ext \in Twice(Get(options.includeExt))
       /\ IsSome(options.excludeExt) => ext \notin Twice(Get(options.excludeExt))

\* the predicate of files.filter(...)
PassesFilter(file, options) ==
    LET ext == normalize(extname(file))
    IN /\ IsSome(options.includeExt)
            => ext \in Range(MapNormalize(Get(options.includeExt)))
       /\ IsSome(options.excludeExt)
            => ext \notin Range(MapNormalize(Get(options.excludeExt)))

FilterFiles(fs, options) ==
    LET Keep(f) == PassesFilter(f, options) IN SelectSeq(fs, Keep)

\* mutant: a loop that gives up at the first file whose analysis throws
RECURSIVE LoadLoopAbort(_, _, _)
LoadLoopAbort(fs, n, genTypes) ==
    IF fs = <<>> THEN [pushed |-> <<>>, events |-> <<>>]
    ELSE IF AnalyzeThrows(Head(fs))
    THEN [pushed |-> <<>>,
          events |-> <<Event("error", "Error reading file", Head(fs))>>]
    ELSE LET rest == LoadLoopAbort(Tail(fs), n, genTypes)
         IN [pushed |-> <<analyze(Head(fs), genTypes)>> \o rest.pushed,
             events |-> <<Event("analyzed", "Analyzed file", analyze(Head(fs), genTypes)),
                          Event("loaded", "Loaded file", n)>>
                            \o rest.events]

\* mutant: a loaded event that carries the number of files taken so far
RECURSIVE LoadLoopSoFar(_, _, _)
LoadLoopSoFar(fs, n, genTypes) ==
    IF fs = <<>> THEN [pushed |-> <<>>, events |-> <<>>]
    ELSE LET file == Head(fs)
             rest == LoadLoopSoFar(Tail(fs), n, genTypes)
         IN IF AnalyzeThrows(file)
            THEN [pushed |-> rest.pushed,
                  events |-> <<Event("error", "Error reading file", file)>>
                                 \o rest.events]
            ELSE [pushed |-> <<analyze(file, genTypes)>> \o rest.pushed,
                  events |-> <<Event("analyzed", "Analyzed file", analyze(file, genTypes)),
                               Event("loaded", "Loaded file", n - Len(fs) + 1)>>
                                 \o rest.events]

\* the second loop of load: n is files.length after filtering
RECURSIVE LoadLoop(_, _, _)
LoadLoop(fs, n, genTypes) ==
    IF fs = <<>> THEN [pushed |-> <<>>, events |-> <<>>]
    ELSE LET file == Head(fs)
             rest == LoadLoop(Tail(fs), n, genTypes)
         IN IF AnalyzeThrows(file)
            THEN [pushed |-> rest.pushed,
                  events |-> <<Event("error", "Error reading file", file)>>
                                 \o rest.events]
            ELSE [pushed |-> <<analyze(file, genTypes)>> \o rest.pushed,
                  events |-> <<Event("analyzed", "Analyzed file", analyze(file, genTypes)),
                               Event("loaded", "Loaded file", n)>>
                                 \o rest.events]

LoadOptions(inc, exc, gen) == [includeExt |-> inc, excludeExt |-> exc, genTypes |-> gen]

Dotted(ext) == <<Dot>> \o ext

\* the calls of load: a source list and the options
LoadCall(sources, options) == [sources |-> sources, options |-> options]

LoadCalls ==
    {LoadCall(<<DirT>>, LoadOptions(None, None, None)),
     LoadCall(<<DirT>>, LoadOptions(Some(<<StrMd>>), None, None)),
     LoadCall(<<DirT>>, LoadOptions(None, Some(<<Dotted(StrMd)>>), None)),
     LoadCall(<<DirT>>, LoadOptions(Some(<<Dotted(StrMd)>>), Some(<<StrMd>>), None)),
     LoadCall(<<FileC>>, LoadOptions(None, None, Some(FALSE))),
     LoadCall(<<FileC, DirU>>,
              LoadOptions(Some(<<StrTs, StrMd, StrTxt>>),
                          Some(<<Dotted(StrTxt), Dotted(Dotted(StrMd))>>), None)),
     LoadCall(<<DirU, FileB>>, LoadOptions(Some(<<StrMd>>), Some(<<Dotted(Dotted(StrMd))>>), None)),
     LoadCall(<<FileGone, DirSub>>, LoadOptions(None, None, None)),
     LoadCall(<<FileGone, FileB>>, LoadOptions(Some(<<StrMd, StrMd>>), Some(<<StrMd>>), None))}

Load(sources, options) ==
    LET r == ResolveSources(sources)
        selected == FilterFiles(r.files, options)
        l == LoadLoop(selected, Len(selected), options.genTypes)
    IN /\ Called
       /\ op' = [name |-> "load", sources |-> sources, options |-> options]
       /\ UNCHANGED <<files, disk, listeners, delivered, arrays, stored, tasks>>
       /\ IF Conflict(options)
          THEN /\ events' = r.events \o
                     <<Event("error", "Conflicting include and exclude extensions",
                             Intersection(options))>>
               /\ ret' = Returned("entries", <<>>)
               /\ UNCHANGED entries
          ELSE /\ Len(entries) + Len(l.pushed) <= MaxEntries
               /\ events' = r.events \o l.events
               /\ entries' = entries \o l.pushed
               /\ ret' = Returned("entries", entries')

\* ---- analyze ----

\* the calls of analyze: a path, the genTypes flag and the push flag
AnalyzeCall(filepath, genTypes, push) ==
    [filepath |-> filepath, genTypes |-> genTypes, push |-> push]

AnalyzeCalls ==
    {AnalyzeCall(FileA, Some(FALSE), FALSE),
     AnalyzeCall(FileA, None, TRUE),
     AnalyzeCall(FileGone, None, TRUE)}

Analyze(filepath, genTypes, push) ==
    /\ Called
    /\ op' = [name |-> "analyze", filepath |-> filepath, genTypes |-> genTypes,
              push |-> push]
    /\ UNCHANGED <<files, disk, listeners, delivered, arrays, stored, tasks>>
    /\ IF AnalyzeThrows(filepath)
       THEN /\ events' = <<>>
            /\ ret' = Returned("throw", filepath)
            /\ UNCHANGED entries
       ELSE /\ push => Len(entries) < MaxEntries
            /\ events' = <<Event("analyzed", "Analyzed file", analyze(filepath, genTypes))>>
            /\ entries' = IF push THEN Append(entries, analyze(filepath, genTypes))
                          ELSE entries
            /\ ret' = Returned("entry", analyze(filepath, genTypes))

\* ---- compress, decompress ----

\* mutant: a loop that gives up at the first entry whose compression throws
RECURSIVE CompressLoopAbort(_)
CompressLoopAbort(es) ==
    IF es = <<>> THEN [files |-> <<>>, events |-> <<>>]
    ELSE IF CompressorThrows(Head(es).content)
    THEN [files |-> <<>>,
          events |-> <<Event("error", "Error compressing file", Head(es).path)>>]
    ELSE LET rest == CompressLoopAbort(Tail(es))
             newEntry == [Head(es) EXCEPT !.data = Some(compressor(Head(es).content)),
                                          !.compressed = TRUE]
         IN [files |-> <<newEntry>> \o rest.files,
             events |-> <<Event("compression", "Compressed file", newEntry.data)>>
                            \o rest.events]

\* the loop of compress over this.entries
RECURSIVE CompressLoop(_)
CompressLoop(es) ==
    IF es = <<>> THEN [files |-> <<>>, events |-> <<>>]
    ELSE LET entry == Head(es)
             rest == CompressLoop(Tail(es))
             newEntry == [entry EXCEPT !.data = Some(compressor(entry.content)),
                                       !.compressed = TRUE]
         IN IF CompressorThrows(entry.content)
            THEN [files |-> rest.files,
                  events |-> <<Event("error", "Error compressing file", entry.path)>>
                                 \o rest.events]
            ELSE [files |-> <<newEntry>> \o rest.files,
                  events |-> <<Event("compression", "Compressed file", newEntry.data)>>
                                 \o rest.events]

Compress ==
    LET r == CompressLoop(entries)
    IN /\ Called
       /\ op' = [name |-> "compress"]
       /\ entries' = r.files
       /\ events' = r.events
       /\ ret' = Returned("entries", r.files)
       /\ UNCHANGED <<files, disk, listeners, delivered, arrays, stored, tasks>>

\* !entry.data: data is undefined or the empty string
NoData(entry) == ~IsSome(entry.data) \/ Get(entry.data) = <<>>

\* the loop of decompress over this.entries
RECURSIVE DecompressLoop(_)
DecompressLoop(es) ==
    IF es = <<>> THEN [files |-> <<>>, events |-> <<>>]
    ELSE LET entry == Head(es)
             rest == DecompressLoop(Tail(es))
         IN IF NoData(entry) THEN rest
            ELSE IF DecompressorThrows(Get(entry.data))
            THEN [files |-> rest.files,
                  events |-> <<Event("error", "Error decompressing file", entry.path)>>
                                 \o rest.events]
            ELSE LET newEntry ==
                         [entry EXCEPT !.data = Some(decompressor(Get(entry.data))),
                                       !.compressed = FALSE]
                 IN [files |-> <<newEntry>> \o rest.files,
                     events |-> <<Event("compression", "Decompressed file", newEntry.data)>>
                                    \o rest.events]

Decompress ==
    LET r == DecompressLoop(entries)
    IN /\ Called
       /\ op' = [name |-> "decompress"]
       /\ entries' = r.files
       /\ events' = r.events
       /\ ret' = Returned("entries", r.files)
       /\ UNCHANGED <<files, disk, listeners, delivered, arrays, stored, tasks>>

\* ---- modifyEntries, addExtra ----

\* { ...entry, ...updatedEntry }
Merge(entry, patch) ==
    [f \in DOMAIN entry |-> IF f \in DOMAIN patch THEN patch[f] ELSE entry[f]]

EmptyObject == [k \in {} |-> 0]

\* Object.keys(o).length
KeyCount(o) == Cardinality(DOMAIN o)

Bang == 33

\* the callbacks modifyEntries is called with, each a function of the entry:
\* one that returns undefined, one that returns {}, one that appends "!" to
\* the name (once), one that patches the md entries and skips the others,
\* one that sets compressed (a Partial<Entry> may hold any field)
ModifyCallbacks == {"undefined", "empty", "rename", "mdOnly", "markCompressed"}

ModifyCallback(cb, entry) ==
    CASE cb = "undefined" -> None
      [] cb = "empty" -> Some(EmptyObject)
      [] cb = "rename" ->
            Some([name |-> IF entry.name # <<>> /\ entry.name[Len(entry.name)] = Bang
                           THEN entry.name ELSE Append(entry.name, Bang)])
      [] cb = "markCompressed" -> Some([compressed |-> TRUE])
      [] OTHER -> IF entry.ext = StrMd THEN Some([ext |-> entry.ext]) ELSE None

\* mutant: the test for an updated entry without the key count
KeepsPatchAny(updatedEntry) == IsSome(updatedEntry)

\* updatedEntry && Object.keys(updatedEntry).length > 0
KeepsPatch(updatedEntry) == IsSome(updatedEntry) /\ KeyCount(Get(updatedEntry)) > 0

RECURSIVE ModifyLoop(_, _)
ModifyLoop(es, cb) ==
    IF es = <<>> THEN <<>>
    ELSE LET entry == Head(es)
             updatedEntry == ModifyCallback(cb, entry)
         IN (IF KeepsPatch(updatedEntry)
             THEN <<Merge(entry, Get(updatedEntry))>> ELSE <<>>)
                \o ModifyLoop(Tail(es), cb)

ModifyEntries(cb) ==
    /\ Called
    /\ op' = [name |-> "modifyEntries", callback |-> cb,
              results |-> [i \in 1..Len(entries) |-> ModifyCallback(cb, entries[i])]]
    /\ entries' = ModifyLoop(entries, cb)
    /\ events' = <<>>
    /\ ret' = Returned("entries", entries')
    /\ UNCHANGED <<files, disk, listeners, delivered, arrays, stored, tasks>>

\* a value of extra with its typeof
Val(t, v) == [t |-> t, v |-> v]

ExtraCallbacks == {"undefined", "empty", "category", "statsMd"}

ExtraCallback(cb, entry) ==
    CASE cb = "undefined" -> None
      [] cb = "empty" -> Some(EmptyObject)
      [] cb = "category" -> Some([category |-> Val("string", "test")])
      [] OTHER -> IF entry.ext = StrMd
                  THEN Some([hello |-> Val("string", "world"), cat |-> Val("number", 5)])
                  ELSE None

RECURSIVE ExtraLoop(_, _)
ExtraLoop(es, cb) ==
    IF es = <<>> THEN <<>>
    ELSE LET entry == Head(es)
             extra == ExtraCallback(cb, entry)
         IN (IF IsSome(extra) /\ KeyCount(Get(extra)) > 0
             THEN <<[entry EXCEPT !.extra = extra]>> ELSE <<>>)
                \o ExtraLoop(Tail(es), cb)

AddExtra(cb) ==
    /\ Called
    /\ op' = [name |-> "addExtra", callback |-> cb,
              results |-> [i \in 1..Len(entries) |-> ExtraCallback(cb, entries[i])]]
    /\ entries' = ExtraLoop(entries, cb)
    /\ events' = <<>>
    /\ ret' = Returned("entries", entries')
    /\ UNCHANGED <<files, disk, listeners, delivered, arrays, stored, tasks>>

\* ------------------------------------------------------------------------
\* The code generator
\* ------------------------------------------------------------------------
\* The content of an artifact is the sequence of the chunks that generate
\* joins with blank lines; a chunk is held by what it declares rather than
\* as text.

Underscore == 95

IsDigit(c) == c >= 48 /\ c <= 57

\* name.replace(/\W/g, "_").replace(/^(\d)/, "_$1")
sanitizeTypeName(name) ==
    LET w == [i \in 1..Len(name) |->
                 IF IsWordChar(name[i]) THEN name[i] ELSE Underscore]
    IN IF w # <<>> /\ IsDigit(w[1]) THEN <<Underscore>> \o w ELSE w

\* entry.data ? ... : ... in formatJsEntries: an empty string is falsy
Truthy(data) == IsSome(data) /\ Get(data) # <<>>

\* one row of the Map literal per entry: the extra fields, content, compressed
formatJsEntries(es) ==
    [i \in 1..Len(es) |->
        [name |-> es[i].name,
         extra |-> IF IsSome(es[i].extra) THEN Get(es[i].extra) ELSE EmptyObject,
         content |-> IF Truthy(es[i].data) THEN Get(es[i].data) ELSE es[i].content,
         compressed |-> es[i].compressed]]

exportEntryOptions(es) ==
    [kind |-> "EntryOptions", names |-> [i \in 1..Len(es) |-> es[i].name]]

ExtraKeys(es) ==
    UNION {IF IsSome(es[i].extra) THEN DOMAIN Get(es[i].extra) ELSE {} : i \in 1..Len(es)}

\* per key of any extra, the set of the typeof of its values
generateEntryDataInterface(es) ==
    [kind |-> "EntryData",
     fields |-> [k \in ExtraKeys(es) |->
                    {Get(es[i].extra)[k].t :
                        i \in {j \in 1..Len(es) :
                                  IsSome(es[j].extra) /\ k \in DOMAIN Get(es[j].extra)}}]]

\* entry.types && Object.keys(entry.types).length
HasTypes(entry) == IsSome(entry.types) /\ Get(entry.types) # {}

WithTypes(es) == SelectSeq(es, HasTypes)

exportTypeMappings(es) ==
    [kind |-> "interfaces",
     decls |-> [i \in 1..Len(WithTypes(es)) |->
                   [typeName |-> sanitizeTypeName(WithTypes(es)[i].name),
                    fields |-> Get(WithTypes(es)[i].types)]]]

\* mutant: EntryMap with a row for every entry
exportEntryTypeMapAll(es) ==
    [kind |-> "EntryMap",
     rows |-> [i \in 1..Len(es) |->
                  [name |-> es[i].name, typeName |-> sanitizeTypeName(es[i].name)]]]

exportEntryTypeMap(es) ==
    [kind |-> "EntryMap",
     rows |-> [i \in 1..Len(WithTypes(es)) |->
                  [name |-> WithTypes(es)[i].name,
                   typeName |-> sanitizeTypeName(WithTypes(es)[i].name)]]]

TypeChunks(es) ==
    <<exportEntryOptions(es), generateEntryDataInterface(es),
      exportTypeMappings(es), exportEntryTypeMap(es)>>

Import(names, from, typeOnly) ==
    [kind |-> "import", names |-> names, from |-> from, typeOnly |-> typeOnly]

exportIndex(es, format, merge, typesFilename) ==
    (IF ~merge /\ format = "ts"
     THEN <<Import({"EntryData", "EntryOptions"}, typesFilename, TRUE)>>
     ELSE <<>>)
    \o <<[kind |-> "entries", typed |-> format = "ts", rows |-> formatJsEntries(es)]>>

Function(name, format, async, source) ==
    [kind |-> "function", name |-> name, typed |-> format = "ts",
     async |-> async, source |-> source]

exportHelperFunctions(format, merge, indexFilename, typesFilename) ==
    (IF merge THEN <<>>
     ELSE (IF format = "ts"
           THEN <<Import({"EntryData", "EntryOptions", "EntryMap"}, typesFilename, TRUE)>>
           ELSE <<>>)
          \o <<Import({"entries"}, indexFilename, FALSE)>>)
    \o <<Function("getEntry", format, FALSE, "entries"),
         Function("getEntries", format, FALSE, "entries"),
         Function("useEntry", format, FALSE, "entries")>>

\* mutant: the value of a key without its compressed flag
JsonValueNoFlag(entry) ==
    LET extra == IF IsSome(entry.extra) THEN Get(entry.extra) ELSE EmptyObject
    IN [k \in DOMAIN extra \cup {"content"} |->
           IF k = "content"
               THEN Val("string", IF IsSome(entry.data) THEN Get(entry.data)
                                  ELSE entry.content)
           ELSE extra[k]]

\* the value of one key of the JSON object
JsonValue(entry) ==
    LET extra == IF IsSome(entry.extra) THEN Get(entry.extra) ELSE EmptyObject
    IN [k \in DOMAIN extra \cup {"content", "compressed"} |->
           IF k = "content"
               THEN Val("string", IF IsSome(entry.data) THEN Get(entry.data)
                                  ELSE entry.content)
           ELSE IF k = "compressed" THEN Val("boolean", entry.compressed)
           ELSE extra[k]]

\* mutant: a key holds the value of the first entry of its name
exportJsonIndexFirst(es) ==
    LET First(i) == \A j \in 1..(i - 1) : es[j].name # es[i].name
        firsts == SelectSeq([i \in 1..Len(es) |-> i], First)
    IN [i \in 1..Len(firsts) |->
           [key |-> es[firsts[i]].name, value |-> JsonValue(es[firsts[i]])]]

\* Object.fromEntries: a key stands where its name first occurs and holds
\* the value of the last entry of that name
exportJsonIndex(es) ==
    LET First(i) == \A j \in 1..(i - 1) : es[j].name # es[i].name
        Last(n) == CHOOSE i \in 1..Len(es) :
                       /\ es[i].name = n
                       /\ \A j \in (i + 1)..Len(es) : es[j].name # n
        firsts == SelectSeq([i \in 1..Len(es) |-> i], First)
    IN [i \in 1..Len(firsts) |->
           [key |-> es[firsts[i]].name,
            value |-> JsonValue(es[Last(es[firsts[i]].name)])]]

exportJsonHelpers(format, jsonFilename) ==
    <<Function("getEntry", format, TRUE, jsonFilename),
      Function("getEntries", format, TRUE, jsonFilename),
      Function("useEntry", format, TRUE, jsonFilename)>>

File(filename, ext, content) == [filename |-> filename, ext |-> ext, content |-> content]

Default(o, d) == IF IsSome(o) THEN Get(o) ELSE d

\* the destructuring of options with its defaults
Config(o) ==
    [indexFilename |-> Default(o.indexFilename, "index"),
     typesFilename |-> Default(o.typesFilename, "index.d"),
     helpersFilename |-> Default(o.helpersFilename, "helpers"),
     jsonFilename |-> Default(o.jsonFilename, "data"),
     exportHelpers |-> Default(o.exportHelpers, TRUE),
     exportFormat |-> Default(o.exportFormat, "ts"),
     exportHelpersFormat |-> Default(o.exportHelpersFormat, "ts"),
     mergeFiles |-> Default(o.mergeFiles, FALSE)]

HelpersFile(c) ==
    File(c.helpersFilename, c.exportHelpersFormat,
         exportHelperFunctions(c.exportHelpersFormat, c.mergeFiles,
                               c.indexFilename, c.typesFilename))

\* mutant: the merged branch emitting the helpers as an artifact of their own
GenerateMergedSplit(es, c) ==
    <<File(c.indexFilename, c.exportFormat,
           (IF c.exportFormat = "ts" THEN TypeChunks(es) ELSE <<>>)
           \o exportIndex(es, c.exportFormat, c.mergeFiles, c.typesFilename))>>
    \o (IF c.exportHelpers THEN <<HelpersFile(c)>> ELSE <<>>)

\* generate, exportFormat js or ts, mergeFiles true: the type declarations
\* (ts), the entry table, the helper functions, in one artifact
GenerateMerged(es, c) ==
    <<File(c.indexFilename, c.exportFormat,
           (IF c.exportFormat = "ts" THEN TypeChunks(es) ELSE <<>>)
           \o exportIndex(es, c.exportFormat, c.mergeFiles, c.typesFilename)
           \o (IF c.exportHelpers THEN HelpersFile(c).content ELSE <<>>))>>

\* mutant: the types artifact emitted for the js format as well
GenerateSplitTypesAlways(es, c) ==
    <<File(c.indexFilename, c.exportFormat,
           exportIndex(es, c.exportFormat, c.mergeFiles, c.typesFilename)),
      File(c.typesFilename, c.exportFormat, TypeChunks(es))>>
    \o (IF c.exportHelpers THEN <<HelpersFile(c)>> ELSE <<>>)

\* generate, exportFormat js or ts, mergeFiles false
GenerateSplit(es, c) ==
    <<File(c.indexFilename, c.exportFormat,
           exportIndex(es, c.exportFormat, c.mergeFiles, c.typesFilename))>>
    \o (IF c.exportFormat = "ts"
        THEN <<File(c.typesFilename, c.exportFormat, TypeChunks(es))>>
        ELSE <<>>)
    \o (IF c.exportHelpers THEN <<HelpersFile(c)>> ELSE <<>>)

JsonHelpersFile(es, c) ==
    File(c.helpersFilename, c.exportHelpersFormat,
         (IF c.exportHelpersFormat = "ts" THEN TypeChunks(es) ELSE <<>>)
         \o exportJsonHelpers(c.exportHelpersFormat, c.jsonFilename))

\* mutant: the helpers of the json format emitted only when not merging
GenerateJsonMergeAware(es, c) ==
    <<File(c.jsonFilename, "json", exportJsonIndex(es))>>
    \o (IF c.exportHelpers /\ ~c.mergeFiles THEN <<JsonHelpersFile(es, c)>> ELSE <<>>)

\* generate, exportFormat json
GenerateJson(es, c) ==
    <<File(c.jsonFilename, "json", exportJsonIndex(es))>>
    \o (IF c.exportHelpers THEN <<JsonHelpersFile(es, c)>> ELSE <<>>)

generate(es, o) ==
    IF Config(o).exportFormat = "json" THEN GenerateJson(es, Config(o))
    ELSE IF Config(o).mergeFiles THEN GenerateMerged(es, Config(o))
    ELSE GenerateSplit(es, Config(o))

\* the options generate is called with: every combination of format,
\* helpers, helpers format and merging, the empty options, options that set
\* the format alone, and options that rename every artifact
Options(fmt, helpers, hfmt, merge) ==
    [indexFilename |-> None, typesFilename |-> None, helpersFilename |-> None,
     jsonFilename |-> None, exportHelpers |-> helpers, exportFormat |-> fmt,
     exportHelpersFormat |-> hfmt, mergeFiles |-> merge]

FullOptions ==
    {Options(Some(f), Some(h), Some(hf), Some(m)) :
        f \in {"js", "ts", "json"}, h \in BOOLEAN, hf \in {"js", "ts"}, m \in BOOLEAN}

FormatOnlyOptions == {Options(Some(f), None, None, None) : f \in {"js", "ts", "json"}}

RenamedOptions ==
    {[Options(Some(f), None, None, Some(m)) EXCEPT
         !.indexFilename = Some("main"), !.typesFilename = Some("types.d"),
         !.helpersFilename = Some("util"), !.jsonFilename = Some("table")] :
        f \in {"ts", "json"}, m \in BOOLEAN}

GeneratorOptionsSet ==
    FullOptions \cup FormatOnlyOptions \cup RenamedOptions
        \cup {Options(None, None, None, None)}

\* ---- AetherBytes.generate ----

\* a.name.localeCompare(b.name) < 0, for the names of the model (lower case
\* letters and "!"): the order of the code units, a prefix first
RECURSIVE NameBefore(_, _)
NameBefore(a, b) ==
    IF b = <<>> THEN FALSE
    ELSE IF a = <<>> THEN TRUE
    ELSE IF Head(a) # Head(b) THEN Head(a) < Head(b)
    ELSE NameBefore(Tail(a), Tail(b))

\* Array.prototype.sort is stable: an entry goes after the entries that do
\* not come after it
RECURSIVE InsertByName(_, _)
InsertByName(sorted, e) ==
    IF sorted = <<>> THEN <<e>>
    ELSE IF NameBefore(e.name, Head(sorted).name) THEN <<e>> \o sorted
    ELSE <<Head(sorted)>> \o InsertByName(Tail(sorted), e)

\* the collection left in the order it was loaded in
SortNothing(es) == es

RECURSIVE SortByName(_)
SortByName(es) ==
    IF es = <<>> THEN <<>>
    ELSE InsertByName(SortByName(SubSeq(es, 1, Len(es) - 1)), es[Len(es)])

\* the destinations generate is called with: "out" holds a directory named
\* index.d.ts, so that writeFile fails there; "ro" cannot be created
WriteThrows(destination, file) ==
    \/ destination = "ro"
    \/ destination = "out" /\ file.filename = "index.d" /\ file.ext = "ts"

FullPath(destination, file) == <<destination, file.filename, file.ext>>

\* mutant: a loop that gives up at the first artifact whose write throws
RECURSIVE WriteLoopAbort(_, _, _)
WriteLoopAbort(destination, fs, d) ==
    IF fs = <<>> THEN [disk |-> d, events |-> <<>>, pushed |-> <<>>]
    ELSE IF WriteThrows(destination, Head(fs))
    THEN [disk |-> d,
          events |-> <<Event("error", "Error generating file", Head(fs).filename)>>,
          pushed |-> <<>>]
    ELSE LET written == {w \in d : w.path # FullPath(destination, Head(fs))}
                            \cup {[path |-> FullPath(destination, Head(fs)),
                                   content |-> Head(fs).content]}
             rest == WriteLoopAbort(destination, Tail(fs), written)
         IN [rest EXCEPT !.events =
                <<Event("generator", "Generated file", Head(fs))>> \o @,
                         !.pushed = <<Head(fs)>> \o @]

\* the loop of generate over the artifacts
RECURSIVE WriteLoop(_, _, _)
WriteLoop(destination, fs, d) ==
    IF fs = <<>> THEN [disk |-> d, events |-> <<>>, pushed |-> <<>>]
    ELSE LET file == Head(fs)
             fullPath == FullPath(destination, file)
         IN IF WriteThrows(destination, file)
            THEN LET rest == WriteLoop(destination, Tail(fs), d)
                 IN [rest EXCEPT !.events =
                        <<Event("error", "Error generating file", file.filename)>> \o @]
            ELSE LET written == {w \in d : w.path # fullPath}
                                    \cup {[path |-> fullPath, content |-> file.content]}
                     rest == WriteLoop(destination, Tail(fs), written)
                 IN [rest EXCEPT !.events =
                        <<Event("generator", "Generated file", file)>> \o @,
                                 !.pushed = <<file>> \o @]

\* the recorded artifacts never exceed this bound (guard of Generate)
MaxFiles == 3

\* mutant: generate without its test for an empty collection
NoEntriesNever(es) == FALSE

\* this.entries.length === 0
NoEntries(es) == Len(es) = 0

\* the calls of AetherBytes.generate: a destination and the options
GenerateCallOf(destination, options) == [destination |-> destination, options |-> options]

GenerateCalls ==
    {GenerateCallOf("out", Options(None, None, None, None)),
     GenerateCallOf("out", Options(Some("json"), None, None, None)),
     GenerateCallOf("out", Options(Some("ts"), None, None, Some(TRUE))),
     GenerateCallOf("out", Options(Some("js"), Some(FALSE), None, None)),
     GenerateCallOf("ro", Options(None, None, None, None))}

Generate(destination, options) ==
    /\ Called
    /\ op' = [name |-> "generate", destination |-> destination, options |-> options,
              before |-> entries]
    /\ UNCHANGED <<listeners, delivered, arrays, stored, tasks>>
    /\ IF NoEntries(entries)
       THEN /\ events' = <<Event("error", "No entries to write", <<>>)>>
            /\ ret' = Returned("undefined", <<>>)
            /\ UNCHANGED <<entries, files, disk>>
       ELSE LET sortedEntries == SortByName(entries)
                generated == generate(sortedEntries, options)
                w == WriteLoop(destination, generated, disk)
            IN /\ Len(files) + Len(w.pushed) <= MaxFiles
               /\ entries' = sortedEntries
               /\ files' = files \o w.pushed
               /\ disk' = w.disk
               /\ events' = w.events
               /\ ret' = Returned("files", generated)

\* ------------------------------------------------------------------------
\* Specifications
\* ------------------------------------------------------------------------

Init ==
    /\ entries = <<>>
    /\ files = <<>>
    /\ disk = {}
    /\ events = <<>>
    /\ ret = Returned("none", <<>>)
    /\ op = [name |-> "new"]
    /\ calls = 0
    /\ listeners = NoListeners
    /\ delivered = <<>>
    /\ arrays = <<>>
    /\ stored = 0
    /\ tasks = <<>>

Next ==
    \/ \E c \in LoadCalls : Load(c.sources, c.options)
    \/ \E c \in AnalyzeCalls : Analyze(c.filepath, c.genTypes, c.push)
    \/ Compress
    \/ Decompress
    \/ \E cb \in ModifyCallbacks : ModifyEntries(cb)
    \/ \E cb \in ExtraCallbacks : AddExtra(cb)
    \/ \E c \in GenerateCalls : Generate(c.destination, c.options)

Spec == Init /\ [][Next]_vars

\* The generator alone, as a function of its arguments: the entry list is
\* drawn from lists of entries the orchestrator can hold (the empty list
\* included, which AetherBytes.generate never passes on) and every call
\* applies generate to it.

\* the longest entry list generate is applied to
MaxGenLen == 2

\* entries as the orchestrator hands them over: analyzed, compressed, with
\* extra, decompressed from an empty file and from a file holding only a
\* byte order mark
SampleEntries ==
    {analyze(FileA, None),
     CompressLoop(<<analyze(FileB, Some(FALSE))>>).files[1],
     ExtraLoop(<<analyze(FileA2, None)>>, "category")[1],
     DecompressLoop(CompressLoop(<<analyze(FileC, None)>>).files).files[1],
     DecompressLoop(CompressLoop(<<analyzeContent(FileC, <<BOM>>, None)>>).files).files[1]}

GenEntryLists == UNION {[1..k -> SampleEntries] : k \in 0..MaxGenLen}

InitGen ==
    /\ entries \in GenEntryLists
    /\ files = <<>>
    /\ disk = {}
    /\ events = <<>>
    /\ ret = Returned("none", <<>>)
    /\ op = [name |-> "new"]
    /\ calls = 0
    /\ listeners = NoListeners
    /\ delivered = <<>>
    /\ arrays = <<>>
    /\ stored = 0
    /\ tasks = <<>>

\* mutant: a generator whose files array outlives the call
GenerateCallShared(options) ==
    /\ Called
    /\ op' = [name |-> "generator", options |-> options,
              repeated |-> op.name = "generator" /\ op.options = options]
    /\ ret' = Returned("files", (IF ret.kind = "files" THEN ret.val ELSE <<>>)
                                   \o generate(entries, options))
    /\ UNCHANGED <<entries, files, disk, events, listeners, delivered, arrays, stored, tasks>>

\* a call of generate; repeated tells that the call before it had the same
\* arguments
GenerateCall(options) ==
    /\ Called
    /\ op' = [name |-> "generator", options |-> options,
              repeated |-> op.name = "generator" /\ op.options = options]
    /\ ret' = Returned("files", generate(entries, options))
    /\ UNCHANGED <<entries, files, disk, events, listeners, delivered, arrays, stored, tasks>>

NextGen == \E options \in GeneratorOptionsSet : GenerateCall(options)

SpecGen == InitGen /\ [][NextGen]_vars

\* The analyzer alone, as a function of the file it reads: disk holds one
\* file whose text is drawn from the texts made of at most MaxPieces pieces
\* (a brace, a space, a one-letter word, the word __proto__), and every call
\* applies analyze to it.

\* the longest text analyze is applied to, in pieces
MaxPieces == 6

Pieces == {<<123>>, <<125>>, <<32>>, <<110>>, ProtoKey}

RECURSIVE Flatten(_)
Flatten(ps) == IF ps = <<>> THEN <<>> ELSE Head(ps) \o Flatten(Tail(ps))

Texts == {Flatten(ps) : ps \in UNION {[1..k -> Pieces] : k \in 0..MaxPieces}}

InitAnalyze ==
    /\ entries = <<>>
    /\ files = <<>>
    /\ disk \in {{[path |-> FileA, content |-> text]} : text \in Texts}
    /\ events = <<>>
    /\ ret = Returned("none", <<>>)
    /\ op = [name |-> "new"]
    /\ calls = 0
    /\ listeners = NoListeners
    /\ delivered = <<>>
    /\ arrays = <<>>
    /\ stored = 0
    /\ tasks = <<>>

AnalyzerCall(genTypes) ==
    /\ \E file \in disk :
          /\ op' = [name |-> "analyzer", filepath |-> file.path,
                    content |-> file.content, genTypes |-> genTypes]
          /\ ret' = Returned("entry", analyzeContent(file.path, file.content, genTypes))
    /\ UNCHANGED <<entries, files, disk, events, calls, listeners, delivered, arrays, stored, tasks>>

NextAnalyze == \E genTypes \in {None, Some(TRUE), Some(FALSE)} : AnalyzerCall(genTypes)

SpecAnalyze == InitAnalyze /\ [][NextAnalyze]_vars

\* The event emitter alone: on registers a callback for an event name, emit
\* calls the callbacks of one; delivered holds the calls the last emit made.

\* the emitter never holds more registrations than this (guard of On)
MaxListeners == 3

\* the event names, callbacks and event data the emitter is called with
EmittedNames == {"error", "analyzed", "loaded"}

Callbacks == {"f", "g"}

EventData == {1, 2}

\* this.events[event], read as a list
CallbacksOf(registry, event) ==
    IF IsSome(registry[event]) THEN Get(registry[event]) ELSE <<>>

RECURSIVE SumOver(_, _)
SumOver(f, S) ==
    IF S = {} THEN 0
    ELSE LET x == CHOOSE y \in S : TRUE IN f[x] + SumOver(f, S \ {x})

Registrations(registry) ==
    SumOver([event \in EventNames |-> Len(CallbacksOf(registry, event))], EventNames)

\* one call of a callback by emit
Call(callback, data) == [callback |-> callback, data |-> data]

On(event, callback) ==
    /\ Registrations(listeners) < MaxListeners
    /\ op' = [name |-> "on", event |-> event, callback |-> callback]
    /\ listeners' = [listeners EXCEPT
                        ![event] = Some(Append(CallbacksOf(listeners, event), callback))]
    /\ delivered' = <<>>
    /\ UNCHANGED <<entries, files, disk, events, ret, calls, arrays, stored, tasks>>

\* mutant: an emit that calls the callbacks of every event name
EmitAll(event, data) ==
    /\ op' = [name |-> "emit", event |-> event, data |-> data]
    /\ delivered' =
          LET all == CallbacksOf(listeners, "error") \o CallbacksOf(listeners, "analyzed")
                        \o CallbacksOf(listeners, "loaded")
          IN [i \in 1..Len(all) |-> Call(all[i], data)]
    /\ UNCHANGED <<entries, files, disk, events, ret, calls, listeners, arrays, stored, tasks>>

Emit(event, data) ==
    /\ op' = [name |-> "emit", event |-> event, data |-> data]
    /\ delivered' =
          IF IsSome(listeners[event])
          THEN [i \in 1..Len(Get(listeners[event])) |->
                   Call(Get(listeners[event])[i], data)]
          ELSE <<>>
    /\ UNCHANGED <<entries, files, disk, events, ret, calls, listeners, arrays, stored, tasks>>

NextEvents ==
    \/ \E event \in EmittedNames, callback \in Callbacks : On(event, callback)
    \/ \E event \in EmittedNames, data \in EventData : Emit(event, data)

SpecEvents == Init /\ [][NextEvents]_vars

\* ------------------------------------------------------------------------
\* Properties
\* ------------------------------------------------------------------------

GeneratorCalled == op.name = "generator"

\* the file names and extensions of the artifacts returned, in order
Shape(fs) == [i \in 1..Len(fs) |-> [filename |-> fs[i].filename, ext |-> fs[i].ext]]

Named(filename, ext) == [filename |-> filename, ext |-> ext]

HasChunk(file, kind) == \E i \in 1..Len(file.content) : file.content[i].kind = kind

\* C1: for exportFormat js or ts with mergeFiles true, generate returns
\* exactly one artifact, named indexFilename with the extension exportFormat,
\* for every entry list and for exportHelpers true or false.
C1_MergedIsOneArtifact ==
    (/\ GeneratorCalled
     /\ Config(op.options).exportFormat \in {"js", "ts"}
     /\ Config(op.options).mergeFiles)
    => /\ Len(ret.val) = 1
       /\ Shape(ret.val) = <<Named(Config(op.options).indexFilename,
                                   Config(op.options).exportFormat)>>

\* a merged ts call with helpers on two entries: its one artifact holds the
\* type declarations, the entry table and the helper functions
C1_Witness ==
    /\ GeneratorCalled
    /\ op.options = Options(Some("ts"), Some(TRUE), Some("ts"), Some(TRUE))
    /\ Len(entries) = 2
    /\ Len(ret.val) = 1
    /\ HasChunk(ret.val[1], "EntryMap")
    /\ HasChunk(ret.val[1], "entries")
    /\ HasChunk(ret.val[1], "function")

\* the artifacts of a call that does not merge, by the options
SplitShape(c) ==
    <<Named(c.indexFilename, c.exportFormat)>>
    \o (IF c.exportFormat = "ts" THEN <<Named(c.typesFilename, "ts")>> ELSE <<>>)
    \o (IF c.exportHelpers THEN <<Named(c.helpersFilename, c.exportHelpersFormat)>>
        ELSE <<>>)

\* C2: for exportFormat js or ts with mergeFiles false, generate returns, in
\* this order, the index artifact, a types artifact exactly when the format
\* is ts, and a helpers artifact exactly when exportHelpers is true: two (js)
\* or three (ts) artifacts with helpers, one (js) or two (ts) without.
C2_SplitArtifacts ==
    (/\ GeneratorCalled
     /\ Config(op.options).exportFormat \in {"js", "ts"}
     /\ ~Config(op.options).mergeFiles)
    => /\ Shape(ret.val) = SplitShape(Config(op.options))
       /\ Len(ret.val) =
             (IF Config(op.options).exportFormat = "ts" THEN 2 ELSE 1)
             + (IF Config(op.options).exportHelpers THEN 1 ELSE 0)
       /\ HasChunk(ret.val[1], "entries")
       /\ \A i \in 2..Len(ret.val) : ~HasChunk(ret.val[i], "entries")
       /\ Config(op.options).exportFormat = "ts" => HasChunk(ret.val[2], "EntryData")
       /\ Config(op.options).exportHelpers => HasChunk(ret.val[Len(ret.val)], "function")

\* a ts call that does not merge and exports helpers returned three artifacts
C2_Witness ==
    /\ GeneratorCalled
    /\ op.options = Options(Some("ts"), Some(TRUE), Some("js"), Some(FALSE))
    /\ Len(entries) = 2
    /\ Shape(ret.val) = <<Named("index", "ts"), Named("index.d", "ts"),
                          Named("helpers", "js")>>

\* C3: for exportFormat json, generate returns exactly one data artifact
\* (jsonFilename, json) and, exactly when exportHelpers is true, one helpers
\* artifact (helpersFilename, exportHelpersFormat) after it; mergeFiles never
\* changes the number of artifacts.
C3_JsonArtifacts ==
    (GeneratorCalled /\ Config(op.options).exportFormat = "json")
    => /\ Shape(ret.val) =
             <<Named(Config(op.options).jsonFilename, "json")>>
             \o (IF Config(op.options).exportHelpers
                 THEN <<Named(Config(op.options).helpersFilename,
                              Config(op.options).exportHelpersFormat)>>
                 ELSE <<>>)
       /\ Len(ret.val) = IF Config(op.options).exportHelpers THEN 2 ELSE 1

\* a json call with helpers and mergeFiles true returned the two artifacts
C3_Witness ==
    /\ GeneratorCalled
    /\ op.options = Options(Some("json"), Some(TRUE), Some("js"), Some(TRUE))
    /\ Len(entries) >= 1
    /\ Shape(ret.val) = <<Named("data", "json"), Named("helpers", "js")>>

\* a call on a one-entry list whose options set the format to json alone
JsonOnlyCall ==
    /\ GeneratorCalled
    /\ op.options = Options(Some("json"), None, None, None)
    /\ Len(entries) = 1

\* the JSON of an artifact has the one top-level key name, whose value has
\* the sub-keys content and compressed
JsonShape(file, name) ==
    /\ file.ext = "json"
    /\ Len(file.content) = 1
    /\ file.content[1].key = name
    /\ {"content", "compressed"} \subseteq DOMAIN file.content[1].value

\* C4 as stated: on a one-entry list with only the format set to json,
\* generate produces a single artifact, whose JSON has a top-level key equal
\* to the entry's name with the sub-keys content and compressed.
C4_AsStated ==
    JsonOnlyCall => Len(ret.val) = 1 /\ JsonShape(ret.val[1], entries[1].name)

\* C4 amended: on a one-entry list with only the format set to json,
\* generate produces the data artifact and, exportHelpers being true by
\* default, one helpers artifact after it; the data artifact's JSON has a
\* top-level key equal to the entry's name with the sub-keys content and
\* compressed.
C4_JsonShapeWithHelpers ==
    JsonOnlyCall
    => /\ Shape(ret.val) = <<Named("data", "json"), Named("helpers", "ts")>>
       /\ JsonShape(ret.val[1], entries[1].name)

C4_Witness ==
    /\ JsonOnlyCall
    /\ IsSome(entries[1].extra)
    /\ Len(ret.val) = 2
    /\ ret.val[1].content[1].value.compressed = Val("boolean", FALSE)

\* the last step was a call of the named method
Called_(name) == op.name = name

\* a leading dot stripped, as the claims read an extension
StripDot(ext) == IF ext # <<>> /\ ext[1] = Dot THEN Tail(ext) ELSE ext

\* the extensions that the options list both to include and to exclude
ConflictingExts(options) ==
    IF IsSome(options.includeExt) /\ IsSome(options.excludeExt)
    THEN {StripDot(e) : e \in Range(Get(options.includeExt))}
             \cap {StripDot(e) : e \in Range(Get(options.excludeExt))}
    ELSE {}

\* every source is a file or a directory that can be read throughout
SourcesReadable(sources) == Range(sources) \subseteq ReadableFiles \cup {DirT, DirSub}

ErrorsAbout(evs, texts) ==
    \A i \in 1..Len(evs) : evs[i].type = "error" /\ evs[i].text \in texts

\* C5: a load whose options name an extension (leading dot stripped) both
\* in includeExt and in excludeExt analyzes no file, emits no analyzed or
\* loaded event, leaves the collection as it was, returns an empty list and
\* ends with one error event that names the conflicting extensions; with
\* every source readable that is the only event.
C5_ConflictFailsFast ==
    [][(Called_("load")' /\ calls' = calls + 1 /\ ConflictingExts(op'.options) # {})
       => /\ entries' = entries
          /\ ret' = Returned("entries", <<>>)
          /\ CountType(events', "analyzed") = 0
          /\ CountType(events', "loaded") = 0
          /\ Len(events') >= 1
          /\ events'[Len(events')].type = "error"
          /\ events'[Len(events')].text = "Conflicting include and exclude extensions"
          /\ Range(events'[Len(events')].arg) = ConflictingExts(op'.options)
          /\ ErrorsAbout(SubSeq(events', 1, Len(events') - 1),
                         {"Error reading source", "Error reading directory"})
          /\ SourcesReadable(op'.sources) => CountType(events', "error") = 1]_vars

\* a conflicting load of the directory t into a collection that holds
\* entries: one error event, an empty result, the entries still there
C5_Witness ==
    /\ Called_("load")
    /\ op.sources = <<DirT>>
    /\ ConflictingExts(op.options) = {StrMd}
    /\ Len(entries) > 0
    /\ ret = Returned("entries", <<>>)
    /\ Len(events) = 1

\* C6: AetherBytes.generate on an empty collection does not throw: it emits
\* one error event, returns undefined, writes no file, emits no generator
\* event and leaves the collection and the recorded files unchanged.
C6_GenerateEmptyRejected ==
    [][(Called_("generate")' /\ calls' = calls + 1 /\ entries = <<>>)
       => /\ ret' = Returned("undefined", <<>>)
          /\ Len(events') = 1
          /\ events'[1].type = "error"
          /\ events'[1].text = "No entries to write"
          /\ disk' = disk
          /\ files' = files
          /\ entries' = entries]_vars

\* generate called on a collection emptied after an earlier generate had
\* written and recorded artifacts
C6_Witness ==
    /\ Called_("generate")
    /\ entries = <<>>
    /\ ret.kind = "undefined"
    /\ files # <<>>
    /\ disk # {}

CompressFails(e) == CompressorThrows(e.content)

CompressSucceeds(e) == ~CompressorThrows(e.content)

Compressed(e) == [e EXCEPT !.data = Some(compressor(e.content)), !.compressed = TRUE]

ErrorEvents(evs) == LET IsError(ev) == ev.type = "error" IN SelectSeq(evs, IsError)

\* C7: compress replaces the collection with, in the original order, one
\* entry for each entry whose compression succeeded, the same as its input
\* but for data (the compressed content) and compressed (true); an entry
\* whose compression throws is left out and reported by exactly one error
\* event, and the entries after it are still processed.
C7_CompressPartialFailure ==
    [][(Called_("compress")' /\ calls' = calls + 1)
       => LET ok == SelectSeq(entries, CompressSucceeds)
              bad == SelectSeq(entries, CompressFails)
          IN /\ entries' = [i \in 1..Len(ok) |-> Compressed(ok[i])]
             /\ ret' = Returned("entries", entries')
             /\ Len(ErrorEvents(events')) = Len(bad)
             /\ \A i \in 1..Len(bad) : ErrorEvents(events')[i].arg = bad[i].path
             /\ Len(events') = Len(entries)]_vars

\* a compress whose first entry failed and whose second entry was compressed
C7_Witness ==
    /\ Called_("compress")
    /\ Len(events) = 2
    /\ events[1].type = "error"
    /\ events[2].type = "compression"
    /\ Len(entries) = 1
    /\ entries[1].compressed
    /\ entries[1].data = Some(compressor(entries[1].content))

HadData(e) == IsSome(e.data)

DecompressSucceeds(e) == ~DecompressorThrows(Get(e.data))

DecompressFails(e) == DecompressorThrows(Get(e.data))

Decompressed(e) ==
    [e EXCEPT !.data = Some(decompressor(Get(e.data))), !.compressed = FALSE]

\* C8: decompress replaces the collection with, in the original order,
\* exactly the entries that had data and whose data decompressed, each with
\* data = the decompressed text and compressed = false; an entry with no data
\* is skipped without any event, and an entry whose decompression fails is
\* dropped and reported by exactly one error event while the batch continues.
C8_DecompressPartialFailure ==
    [][(Called_("decompress")' /\ calls' = calls + 1)
       => LET had == SelectSeq(entries, HadData)
              ok == SelectSeq(had, DecompressSucceeds)
              bad == SelectSeq(had, DecompressFails)
          IN /\ entries' = [i \in 1..Len(ok) |-> Decompressed(ok[i])]
             /\ Len(ErrorEvents(events')) = Len(bad)
             /\ \A i \in 1..Len(bad) : ErrorEvents(events')[i].arg = bad[i].path
             /\ Len(events') = Len(had)]_vars

NoErrors(evs) == CountType(evs, "error") = 0

\* C9: decompressor(compressor(c)) = c for any text c, so that a compress
\* followed by a decompress, neither with a failure, leaves the same entries
\* in the same order, each with data equal to its content and compressed =
\* false.
C9_RoundTrip ==
    [][(/\ Called_("compress") /\ NoErrors(events)
        /\ Called_("decompress")' /\ calls' = calls + 1 /\ NoErrors(events'))
       => /\ \A i \in 1..Len(entries) :
                 decompressor(compressor(entries[i].content)) = entries[i].content
          /\ entries' = [i \in 1..Len(entries) |->
                            [entries[i] EXCEPT !.data = Some(entries[i].content),
                                               !.compressed = FALSE]]]_vars

ReturnedPatch(result) == IsSome(result)

ReturnedKeys(result) == IsSome(result) /\ DOMAIN Get(result) # {}

\* C10 as stated: modifyEntries keeps an entry if and only if its callback
\* returned a patch, an empty patch included; the entry kept is the input
\* with the fields of the patch overriding it, and the kept entries keep
\* their order.
C10_AsStated ==
    [][(Called_("modifyEntries")' /\ calls' = calls + 1)
       => LET kept == SelectSeq([i \in 1..Len(entries) |-> i],
                                LAMBDA i : ReturnedPatch(op'.results[i]))
          IN entries' = [k \in 1..Len(kept) |->
                            Merge(entries[kept[k]], Get(op'.results[kept[k]]))]]_vars

\* C10 amended: modifyEntries keeps an entry if and only if its callback
\* returned a patch with at least one key (an entry whose callback returned
\* nothing or an empty patch is dropped); the entry kept is the input with
\* the fields of the patch overriding it, and the kept entries keep their
\* order.
C10_ModifyFilterMap ==
    [][(Called_("modifyEntries")' /\ calls' = calls + 1)
       => LET kept == SelectSeq([i \in 1..Len(entries) |-> i],
                                LAMBDA i : ReturnedKeys(op'.results[i]))
          IN /\ entries' = [k \in 1..Len(kept) |->
                               [f \in DOMAIN entries[kept[k]] |->
                                   IF f \in DOMAIN Get(op'.results[kept[k]])
                                   THEN Get(op'.results[kept[k]])[f]
                                   ELSE entries[kept[k]][f]]]
             /\ ret' = Returned("entries", entries')]_vars

\* a modifyEntries whose callback returned undefined for the first entry and
\* a one-key patch for the second, which alone is kept
C10_Witness ==
    /\ Called_("modifyEntries")
    /\ op.callback = "mdOnly"
    /\ Len(op.results) = 2
    /\ op.results[1] = None
    /\ IsSome(op.results[2])
    /\ Len(entries) = 1
    /\ entries[1].ext = StrMd

\* the indexes of the entries an addExtra keeps: the callback returned an
\* object with at least one key
ExtraKept(es, results) ==
    SelectSeq([i \in 1..Len(es) |-> i], LAMBDA i : ReturnedKeys(results[i]))

\* the keys of an optional extra
KeysOf(extra) == IF IsSome(extra) THEN DOMAIN Get(extra) ELSE {}

\* C11: addExtra merges the callback's result into the extra the entry
\* already has: every entry an addExtra keeps still has each key its extra
\* had before the call, next to the keys the callback returned.
C11_AddExtraAdditive ==
    [][(Called_("addExtra")' /\ calls' = calls + 1)
       => LET kept == ExtraKept(entries, op'.results)
          IN /\ Len(entries') = Len(kept)
             /\ \A k \in 1..Len(kept) :
                   /\ KeysOf(entries[kept[k]].extra) \subseteq KeysOf(entries'[k].extra)
                   /\ KeysOf(op'.results[kept[k]]) \subseteq KeysOf(entries'[k].extra)]_vars

\* C12: an analyze of a path that does not resolve to an existing file
\* rejects to its caller, emits no analyzed event and leaves the collection
\* as it was, with push = true as well.
C12_AnalyzeMissingFile ==
    [][(/\ Called_("analyze")'
        /\ calls' = calls + 1
        /\ StatThrows(op'.filepath))
       => /\ ret'.kind = "throw"
          /\ CountType(events', "analyzed") = 0
          /\ entries' = entries]_vars

\* an analyze with push = true of the missing gone.md on an instance that
\* holds an entry
C12_Witness ==
    /\ Called_("analyze")
    /\ op.filepath = FileGone
    /\ op.push
    /\ ret.kind = "throw"
    /\ Len(entries) > 0

AnalyzerCalled == op.name = "analyzer"

AllWord(s) == s # <<>> /\ \A i \in 1..Len(s) : IsWordChar(s[i])

AllSpace(s) == \A i \in 1..Len(s) : IsSpaceChar(s[i])

\* the names of the placeholders {name} that start at s[i]
SingleNames(s, i) ==
    IF s[i] # 123 THEN {}
    ELSE {SubSeq(s, i + 1, j - 1) :
             j \in {k \in (i + 2)..Len(s) :
                       s[k] = 125 /\ AllWord(SubSeq(s, i + 1, k - 1))}}

\* the names of the placeholders {{ name }} that start at s[i]: the name is
\* s[a..b], with white space only between it and the braces
DoubleNames(s, i) ==
    IF ~(s[i] = 123 /\ At(s, i + 1) = 123) THEN {}
    ELSE UNION {UNION {{SubSeq(s, a, b) :
                          j \in {k \in (b + 2)..Len(s) :
                                    /\ s[k - 1] = 125 /\ s[k] = 125
                                    /\ AllSpace(SubSeq(s, b + 1, k - 2))}} :
                      b \in {e \in a..Len(s) : AllWord(SubSeq(s, a, e))}} :
                a \in {x \in (i + 2)..Len(s) : AllSpace(SubSeq(s, i + 2, x - 1))}}

\* the distinct placeholder names found in a text
PlaceholderNames(s) ==
    UNION {SingleNames(s, i) \cup DoubleNames(s, i) : i \in 1..Len(s)}

\* C13: an entry returned by analyze has compressed = false and no data;
\* its types is undefined exactly when genTypes was false, and otherwise
\* its keys (each mapped to "string") are the distinct placeholder names
\* found in the content, none when no placeholder matched.
C13_AnalyzeEntry ==
    AnalyzerCalled
    => /\ ret.val.compressed = FALSE
       /\ ret.val.data = None
       /\ ret.val.content = op.content
       /\ (ret.val.types = None) <=> (op.genTypes = Some(FALSE))
       /\ IsSome(ret.val.types)
          => Get(ret.val.types) = PlaceholderNames(op.content)

\* the files a load selects: the files of its sources that pass the filter
SelectedFiles(sources, options) == FilterFiles(ResolveSources(sources).files, options)

\* the events of a load that are about one file
FileEvents(evs) ==
    LET AboutFile(ev) == ev.text \in {"Analyzed file", "Loaded file", "Error reading file"}
    IN SelectSeq(evs, AboutFile)

\* the file an analyzed or error event of load is about
Subject(ev) == IF ev.type = "error" THEN ev.arg ELSE ev.arg.path

\* C14: a load without conflicting extensions takes the selected files in
\* order; each is either analyzed, its entry appended to the collection
\* (an analyzed and a loaded event), or reported by exactly one error event
\* with nothing appended, and the files after a failure are still processed:
\* the entries appended and the per-file error events add up to the number
\* of files selected.
C14_LoadPerFile ==
    [][(/\ Called_("load")'
        /\ calls' = calls + 1
        /\ ~Conflict(op'.options))
       => LET selected == SelectedFiles(op'.sources, op'.options)
              appended == SubSeq(entries', Len(entries) + 1, Len(entries'))
              perFile == FileEvents(events')
              outcomes == SelectSeq(perFile, LAMBDA ev : ev.type # "loaded")
          IN /\ SubSeq(entries', 1, Len(entries)) = entries
             /\ Len(outcomes) = Len(selected)
             /\ \A i \in 1..Len(selected) : Subject(outcomes[i]) = selected[i]
             /\ ErrorEvents(outcomes)
                   = [k \in 1..Len(ErrorEvents(outcomes)) |->
                         Event("error", "Error reading file",
                               SelectSeq(selected, LAMBDA f : f \notin ReadableFiles)[k])]
             /\ [k \in 1..Len(appended) |-> appended[k].path]
                   = SelectSeq(selected, LAMBDA f : f \in ReadableFiles)
             /\ CountType(perFile, "analyzed") = Len(appended)
             /\ CountType(perFile, "loaded") = Len(appended)
             /\ Len(appended) + CountType(perFile, "error") = Len(selected)
             /\ ret' = Returned("entries", entries')]_vars

\* a load that selected the dangling u/x.md and then t/b.md: one error
\* event for the first, the entry of the second appended
C14_Witness ==
    /\ Called_("load")
    /\ SelectedFiles(op.sources, op.options) = <<FileX, FileB>>
    /\ CountType(FileEvents(events), "error") = 1
    /\ CountType(FileEvents(events), "loaded") = 1
    /\ Len(entries) >= 1
    /\ entries[Len(entries)].path = FileB

\* what disk holds at a path: the content written there, or nothing
DiskAt(d, path) == {w.content : w \in {x \in d : x.path = path}}

HoldsCompressedForm(entry) ==
    /\ IsSome(entry.data)
    /\ ~CompressorThrows(entry.content)
    /\ Get(entry.data) = compressor(entry.content)

\* C17: through analyze, load, compress, decompress, modifyEntries and
\* addExtra, compressed and data of an entry change together, never one
\* without the other, and compressed is true exactly when data holds the
\* compressed form of the entry's content.
C17_CompressedWithData ==
    [][/\ \A i \in 1..Len(entries') :
             entries'[i].compressed <=> HoldsCompressedForm(entries'[i])
       /\ Len(entries') = Len(entries)
             => \A i \in 1..Len(entries) :
                   entries'[i].path = entries[i].path
                      => ((entries'[i].compressed # entries[i].compressed)
                            <=> (entries'[i].data # entries[i].data))]_vars

\* C18: on appends the callback to the list of its event name and to no
\* other; emit calls every callback registered for the emitted name exactly
\* once, in registration order and with the emitted data, calls no callback
\* on account of its registration for another name, and calls nothing when
\* no callback is registered for the name.
C18_EmitDispatch ==
    [][/\ (op'.name = "on")
          => /\ CallbacksOf(listeners', op'.event)
                   = Append(CallbacksOf(listeners, op'.event), op'.callback)
             /\ \A event \in EventNames \ {op'.event} :
                   CallbacksOf(listeners', event) = CallbacksOf(listeners, event)
       /\ (op'.name = "emit")
          => /\ listeners' = listeners
             /\ Len(delivered') = Len(CallbacksOf(listeners, op'.event))
             /\ \A i \in 1..Len(delivered') :
                   /\ delivered'[i].callback = CallbacksOf(listeners, op'.event)[i]
                   /\ delivered'[i].data = op'.data
             /\ CallbacksOf(listeners, op'.event) = <<>> => delivered' = <<>>]_vars

\* an emit of loaded with g, f registered for it, in this order, and f for
\* error: g then f were called, once each
C18_Witness ==
    /\ op.name = "emit"
    /\ op.event = "loaded"
    /\ CallbacksOf(listeners, "loaded") = <<"g", "f">>
    /\ CallbacksOf(listeners, "error") = <<"f">>
    /\ delivered = <<Call("g", op.data), Call("f", op.data)>>

\* an emit of an event name without callbacks, others being registered
C18_WitnessNone ==
    /\ op.name = "emit"
    /\ listeners[op.event] = None
    /\ Registrations(listeners) > 0
    /\ delivered = <<>>

\* the chunks of a source artifact (the data artifact holds JSON)
Chunks(file) ==
    IF file.ext = "json" THEN {} ELSE {file.content[i] : i \in 1..Len(file.content)}

\* the helper functions of the artifacts returned
HelperFunctions(fs) ==
    UNION {{c \in Chunks(fs[i]) : c.kind = "function"} : i \in 1..Len(fs)}

\* the dialect the helpers take when exportHelpersFormat is left out, as the
\* claim has it: the export format when that is js, ts otherwise
HelpersDialect(c) == IF c.exportFormat = "js" THEN "js" ELSE "ts"

\* C19: when exportHelpersFormat is not given, the helpers are emitted in
\* the dialect of the export format: js for exportFormat js (a helpers
\* artifact with the extension js, or a merged section without type
\* annotations), ts for exportFormat ts or json.
C19_HelpersDialectDefault ==
    (/\ GeneratorCalled
     /\ op.options.exportHelpersFormat = None
     /\ Config(op.options).exportHelpers)
    => /\ HelperFunctions(ret.val) # {}
       /\ \A fn \in HelperFunctions(ret.val) :
             fn.typed <=> HelpersDialect(Config(op.options)) = "ts"
       /\ ~(Config(op.options).mergeFiles /\ Config(op.options).exportFormat # "json")
             => ret.val[Len(ret.val)].ext = HelpersDialect(Config(op.options))

TypeNames == {"EntryOptions", "EntryData", "EntryMap"}

\* the names an artifact declares: the types of its type chunks and, with
\* the entry table, entries
Declared(file) ==
    {c.kind : c \in {x \in Chunks(file) : x.kind \in TypeNames \cup {"entries"}}}

\* the names an artifact imports
Imported(file) == UNION {c.names : c \in {x \in Chunks(file) : x.kind = "import"}}

\* the names a chunk refers to: the annotated table Map<EntryOptions,
\* EntryData>, the annotations of the helper functions, the table read by
\* the helpers of a source format
RefersTo(c) ==
    CASE c.kind = "entries" -> IF c.typed THEN {"EntryOptions", "EntryData"} ELSE {}
      [] c.kind = "function" ->
            (IF c.typed THEN TypeNames ELSE {}) \cup (IF c.async THEN {} ELSE {"entries"})
      [] OTHER -> {}

\* './<from>' names a source artifact of the call that declares the names
ImportResolves(c, fs) ==
    \E i \in 1..Len(fs) :
        /\ fs[i].filename = c.from
        /\ fs[i].ext \in {"js", "ts"}
        /\ c.names \subseteq Declared(fs[i])

\* './<source>.json' names the data artifact of the call
JsonResolves(c, fs) ==
    \E i \in 1..Len(fs) : fs[i].filename = c.source /\ fs[i].ext = "json"

Coherent(fs) ==
    \A i \in 1..Len(fs) :
        \A c \in Chunks(fs[i]) :
            /\ c.kind = "import" => ImportResolves(c, fs)
            /\ (c.kind = "function" /\ c.async) => JsonResolves(c, fs)
            /\ RefersTo(c) \subseteq Declared(fs[i]) \cup Imported(fs[i])

\* C20: for every combination of options the artifacts of one generate call
\* are coherent: each relative import names an artifact of the call that
\* declares what is imported, each type name and the table an artifact uses
\* is declared in it or imported, and a merged artifact has no import.
C20_ArtifactsCoherent ==
    GeneratorCalled
    => /\ Coherent(ret.val)
       /\ (Config(op.options).mergeFiles /\ Config(op.options).exportFormat # "json")
             => \A c \in Chunks(ret.val[1]) : c.kind # "import"

\* ------------------------------------------------------------------------
\* Order of the entries in the artifacts
\* ------------------------------------------------------------------------

Names(es) == [i \in 1..Len(es) |-> es[i].name]

\* the ways of rearranging n items
Rearrangements(n) ==
    {p \in [1..n -> 1..n] : \A i, j \in 1..n : i # j => p[i] # p[j]}

\* sorted is es in ascending order of name, entries of equal name in the
\* order they have in es
IsStableSortOf(sorted, es) ==
    /\ Len(sorted) = Len(es)
    /\ \E p \in Rearrangements(Len(es)) :
          /\ \A i \in 1..Len(es) : sorted[i] = es[p[i]]
          /\ \A i, j \in 1..Len(es) :
                i < j => /\ ~NameBefore(sorted[j].name, sorted[i].name)
                         /\ sorted[i].name = sorted[j].name => p[i] < p[j]

\* the names listed by the entry table or the EntryOptions union of a chunk
Listed(chunk) ==
    IF chunk.kind = "entries" THEN Some([i \in 1..Len(chunk.rows) |-> chunk.rows[i].name])
    ELSE IF chunk.kind = "EntryOptions" THEN Some(chunk.names)
    ELSE None

\* C21: generate hands the generator the entries in ascending order of name,
\* entries of equal name in the order they were loaded, and the entry table
\* and the EntryOptions union of every artifact list them in that order.
C21_GenerateSorted ==
    [][(/\ Called_("generate")'
        /\ calls' = calls + 1
        /\ ret'.kind = "files")
       => /\ IsStableSortOf(entries', entries)
          /\ \A i \in 1..Len(ret'.val) :
                \A chunk \in Chunks(ret'.val[i]) :
                   IsSome(Listed(chunk)) => Get(Listed(chunk)) = Names(entries')]_vars

\* a generate of a collection that was loaded out of name order, with a
\* table in its artifacts
C21_Witness ==
    /\ Called_("generate")
    /\ ret.kind = "files"
    /\ Len(op.before) = 2
    /\ NameBefore(op.before[2].name, op.before[1].name)
    /\ \E i \in 1..Len(ret.val) : \E chunk \in Chunks(ret.val[i]) : IsSome(Listed(chunk))

\* a generate of a collection holding two entries of one name
C21_WitnessEqual ==
    /\ Called_("generate")
    /\ ret.kind = "files"
    /\ Len(op.before) = 2
    /\ op.before[1].name = op.before[2].name
    /\ op.before[1] # op.before[2]

\* ------------------------------------------------------------------------
\* The content value of an entry in the artifacts
\* ------------------------------------------------------------------------

\* the content value the formats are said to emit: data when present
Expected(entry) == IF IsSome(entry.data) THEN Get(entry.data) ELSE entry.content

\* every row of a js or ts entry table carries the expected content and the flag
TableCarries(file, es) ==
    \A chunk \in Chunks(file) :
       chunk.kind = "entries"
       => /\ Len(chunk.rows) = Len(es)
          /\ \A i \in 1..Len(es) :
                /\ chunk.rows[i].content = Expected(es[i])
                /\ chunk.rows[i].compressed = es[i].compressed

\* every key of a json data artifact carries the expected content and the
\* flag of an entry of that name
JsonCarries(file, es) ==
    file.ext = "json"
    => \A k \in 1..Len(file.content) :
          \E i \in 1..Len(es) :
             /\ es[i].name = file.content[k].key
             /\ file.content[k].value["content"] = Val("string", Expected(es[i]))
             /\ file.content[k].value["compressed"] = Val("boolean", es[i].compressed)

\* C22: in the js, ts and json formats the content value emitted for an
\* entry is its data whenever data is present, the empty string included,
\* and its raw content otherwise, and the compressed value is its flag.
C22_ContentValue ==
    GeneratorCalled
    => \A i \in 1..Len(ret.val) :
          TableCarries(ret.val[i], entries) /\ JsonCarries(ret.val[i], entries)

\* ------------------------------------------------------------------------
\* The type declarations
\* ------------------------------------------------------------------------

\* the entry has a types mapping with at least one placeholder
TypesNonEmpty(entry) == entry.types # None /\ Get(entry.types) # {}

Typed(es) == SelectSeq(es, TypesNonEmpty)

\* the chunks of one kind in the artifacts returned
ChunksOfKind(fs, kind) ==
    UNION {{c \in Chunks(fs[i]) : c.kind = kind} : i \in 1..Len(fs)}

\* the interfaces declared stand for the entries with placeholders, one each
DeclaresTyped(chunk, es) ==
    /\ Len(chunk.decls) = Len(Typed(es))
    /\ \A i \in 1..Len(Typed(es)) :
          /\ chunk.decls[i].typeName = sanitizeTypeName(Typed(es)[i].name)
          /\ chunk.decls[i].fields = Get(Typed(es)[i].types)

\* EntryMap has one row per entry with placeholders, from the name of the
\* entry to the name of the interface declared for it
MapsTyped(chunk, decls, es) ==
    /\ Len(chunk.rows) = Len(Typed(es))
    /\ \A i \in 1..Len(Typed(es)) :
          /\ chunk.rows[i].name = Typed(es)[i].name
          /\ chunk.rows[i].typeName = decls.decls[i].typeName

\* C23: the placeholder interfaces and the rows of EntryMap stand for exactly
\* the entries whose types mapping is non-empty, each row maps the name of its
\* entry to the sanitized name its interface is declared under, and entries
\* with undefined or empty types appear in neither.
C23_TypeDeclarations ==
    (Called_("generate") /\ ret.kind = "files")
    => /\ \A decls \in ChunksOfKind(ret.val, "interfaces") : DeclaresTyped(decls, entries)
       /\ \A file \in Range(ret.val) :
             \A map \in Chunks(file) :
                map.kind = "EntryMap"
                => \E decls \in Chunks(file) :
                      /\ decls.kind = "interfaces"
                      /\ MapsTyped(map, decls, entries)

\* a generate of an entry with placeholders whose name is not a type name,
\* beside an entry without placeholders, that declared the types
C23_Witness ==
    /\ Called_("generate")
    /\ ret.kind = "files"
    /\ \E e \in Range(entries) : TypesNonEmpty(e) /\ sanitizeTypeName(e.name) # e.name
    /\ \E e \in Range(entries) : ~TypesNonEmpty(e)
    /\ \E map \in ChunksOfKind(ret.val, "EntryMap") : Len(map.rows) = 1

\* a generate of entries without placeholders that declared an empty EntryMap
C23_WitnessEmpty ==
    /\ Called_("generate")
    /\ ret.kind = "files"
    /\ \A e \in Range(entries) : ~TypesNonEmpty(e)
    /\ \E map \in ChunksOfKind(ret.val, "EntryMap") : map.rows = <<>>

\* ------------------------------------------------------------------------
\* Entries of one name
\* ------------------------------------------------------------------------

\* the position in es of the last entry named n
LastNamed(es, n) ==
    CHOOSE i \in 1..Len(es) :
       es[i].name = n /\ \A j \in (i + 1)..Len(es) : es[j].name # n

\* the json data artifact has one key per name, holding the value of the
\* last entry of that name in es
LastWins(file, es) ==
    /\ \A n \in Range(Names(es)) :
          Cardinality({k \in 1..Len(file.content) : file.content[k].key = n}) = 1
    /\ \A k \in 1..Len(file.content) :
          /\ file.content[k].key \in Range(Names(es))
          /\ file.content[k].value = JsonValue(es[LastNamed(es, file.content[k].key)])

\* the artifacts whose write fails
FailedWrites(destination, fs) ==
    {i \in 1..Len(fs) : WriteThrows(destination, fs[i])}

\* C24: a generate in the json format of a collection in which a name occurs
\* twice reports no error for it, and the data artifact has a single key for
\* each name, whose value comes from the entry that is later in collection
\* order.
C24_DuplicateNames ==
    (/\ Called_("generate")
     /\ ret.kind = "files"
     /\ Config(op.options).exportFormat = "json")
    => /\ CountType(events, "error")
             = Cardinality(FailedWrites(op.destination, ret.val))
       /\ ret.val[1].ext = "json"
       /\ LastWins(ret.val[1], op.before)

\* a json generate of two entries of one name and different content, written
\* without an error
C24_Witness ==
    /\ Called_("generate")
    /\ ret.kind = "files"
    /\ Config(op.options).exportFormat = "json"
    /\ Len(op.before) = 2
    /\ op.before[1].name = op.before[2].name
    /\ op.before[1].content # op.before[2].content
    /\ Len(ret.val[1].content) = 1
    /\ CountType(events, "error") = 0

\* ------------------------------------------------------------------------
\* Extension filtering
\* ------------------------------------------------------------------------

\* the extension of the file is in the list, a leading dot ignored on both
InExts(file, exts) ==
    \E i \in 1..Len(exts) : StripDot(exts[i]) = StripDot(extname(file))

\* the predicate of the claim: in includeExt when it is given and not in
\* excludeExt when it is given
Wanted(file, options) ==
    /\ IsSome(options.includeExt) => InExts(file, Get(options.includeExt))
    /\ IsSome(options.excludeExt) => ~InExts(file, Get(options.excludeExt))

\* the files of the sources that pass the predicate
WantedFiles(sources, options) ==
    SelectSeq(ResolveSources(sources).files, LAMBDA f : Wanted(f, options))

\* the files a load tried to analyze, in order
Attempted(evs) ==
    LET outcomes == SelectSeq(FileEvents(evs), LAMBDA ev : ev.type # "loaded")
    IN [i \in 1..Len(outcomes) |-> Subject(outcomes[i])]

\* C25 as stated: with non-conflicting filters the files analyzed are the
\* resolved files that pass the predicate, and the number of entries loaded
\* is the number of those files.
C25_FilterCount ==
    [][(/\ Called_("load")'
        /\ calls' = calls + 1
        /\ ConflictingExts(op'.options) = {})
       => /\ Attempted(events') = WantedFiles(op'.sources, op'.options)
          /\ Len(entries') - Len(entries)
                = Len(WantedFiles(op'.sources, op'.options))]_vars

\* C25: with non-conflicting filters the files analyzed are the resolved
\* files that pass the predicate; the entries loaded are those of the passing
\* files that can be read, the same entries that a load of the passing files
\* without filters appends.
C25_FilterCommutes ==
    [][(/\ Called_("load")'
        /\ calls' = calls + 1
        /\ ConflictingExts(op'.options) = {})
       => LET wanted == WantedFiles(op'.sources, op'.options)
              direct == ResolveSources(wanted).files
          IN /\ Attempted(events') = wanted
             /\ Len(entries') - Len(entries)
                   = Len(SelectSeq(wanted, LAMBDA f : ~AnalyzeThrows(f)))
             /\ entries' = entries
                   \o LoadLoop(direct, Len(direct), op'.options.genTypes).pushed]_vars

\* a load whose excludeExt is written with a leading dot, that left the
\* resolved files of that extension out and loaded another
C25_Witness ==
    /\ Called_("load")
    /\ IsSome(op.options.excludeExt)
    /\ \E e \in Range(Get(op.options.excludeExt)) : e # StripDot(e)
    /\ ConflictingExts(op.options) = {}
    /\ Len(WantedFiles(op.sources, op.options)) < Len(ResolveSources(op.sources).files)
    /\ CountType(events, "loaded") >= 1

\* a load that selected a file that cannot be read
C25_WitnessUnreadable ==
    /\ Called_("load")
    /\ ConflictingExts(op.options) = {}
    /\ \E f \in Range(WantedFiles(op.sources, op.options)) : AnalyzeThrows(f)

\* ------------------------------------------------------------------------
\* Calls that overlap
\* ------------------------------------------------------------------------
\* The methods of AetherBytes are async: a call runs to its first await and
\* every later piece runs when the awaited promise settles, so that the
\* pieces of calls started without awaiting the earlier ones interleave.
\* this.entries is a reference to an array: arrays holds the arrays
\* allocated, stored tells the one this.entries refers to, and entries is
\* its content. A task is one call with its position: the item whose await
\* is outstanding (at, cur), the array it iterates (over) or the list it
\* walks (list), its local files array (out) and the events it emitted,
\* each with the number of the item it is about.

\* the number of calls started
MaxTasks == 2

\* the collections the calls start from: t/b.md and t/a.md loaded in that
\* order, and the same collection compressed
AsyncCollections ==
    {<<analyze(FileB, None), analyze(FileA, None)>>,
     CompressLoop(<<analyze(FileB, None), analyze(FileA, None)>>).files}

AsyncCall(name, arg) == [name |-> name, arg |-> arg]

CollectionOps == {"compress", "decompress", "modifyEntries", "addExtra"}

\* the argument of modifyEntries and addExtra; compress and decompress are
\* called without options
Callback(cb) == [callback |-> cb]

NoCallback == Callback("none")

AsyncCalls ==
    {AsyncCall("compress", NoCallback),
     AsyncCall("decompress", NoCallback),
     AsyncCall("modifyEntries", Callback("rename")),
     AsyncCall("addExtra", Callback("category")),
     AsyncCall("load", LoadCall(<<FileC>>, LoadOptions(None, None, Some(FALSE)))),
     AsyncCall("load", LoadCall(<<DirU, FileB>>,
                                LoadOptions(Some(<<StrMd>>), Some(<<Dotted(Dotted(StrMd))>>), None))),
     AsyncCall("generate", GenerateCallOf("out", Options(None, None, None, None)))}

InitAsync ==
    /\ arrays \in {<<initial>> : initial \in AsyncCollections}
    /\ stored = 1
    /\ entries = arrays[1]
    /\ tasks = <<>>
    /\ files = <<>>
    /\ disk = {}
    /\ events = <<>>
    /\ ret = Returned("none", <<>>)
    /\ op = [name |-> "new", before |-> entries]
    /\ calls = 0
    /\ listeners = NoListeners
    /\ delivered = <<>>

\* the events of one piece of a call, each with the item it is about
About(item, evs) == [i \in 1..Len(evs) |-> [item |-> item, event |-> evs[i]]]

\* mutant: the work on every remaining item started at once
InProgressAll(k, n) == k..n

\* the items whose work is under way when the loop reaches item k of n: the
\* loop awaits the work on one item before it takes the next
InProgress(k, n) == {k}

\* a call at its first await or at a later one, on item k
Awaiting(task, k, item, n) ==
    [task EXCEPT !.state = "awaiting", !.at = k, !.cur = item,
                 !.working = InProgress(k, n)]

\* a call that returned
Return(task, kind, val) ==
    [task EXCEPT !.state = "returned", !.working = {}, !.ret = Returned(kind, val)]

Emitted(task, item, evs) == [task EXCEPT !.events = @ \o About(item, evs)]

NewTask(call) ==
    [name |-> call.name, arg |-> call.arg, state |-> "started", at |-> 0,
     cur |-> <<>>, working |-> {}, over |-> 0, list |-> <<>>, out |-> 0,
     events |-> <<>>, ret |-> Returned("none", <<>>)]

\* what one turn of the loop of a collection operation does with its entry
\* once the awaited promise has settled
Body(name, arg, entry) ==
    CASE name = "compress" ->
            [pushed |-> CompressLoop(<<entry>>).files,
             events |-> CompressLoop(<<entry>>).events]
      [] name = "decompress" ->
            [pushed |-> DecompressLoop(<<entry>>).files,
             events |-> DecompressLoop(<<entry>>).events]
      [] name = "modifyEntries" ->
            [pushed |-> ModifyLoop(<<entry>>, arg.callback), events |-> <<>>]
      [] name = "addExtra" ->
            [pushed |-> ExtraLoop(<<entry>>, arg.callback), events |-> <<>>]

\* the next item from k on that the loop awaits on: decompress passes over
\* an entry without data in the same turn (continue)
RECURSIVE SkipTo(_, _, _)
SkipTo(name, array, k) ==
    IF k <= Len(array) /\ name = "decompress" /\ NoData(array[k])
    THEN SkipTo(name, array, k + 1)
    ELSE k

\* the loop of a collection operation taking its next item from k on: the
\* iterator reads the array it was made for as it is now; past its end the
\* local array is installed as this.entries and returned
TakeNext(task, k, heap) ==
    LET array == heap[task.over]
        j == SkipTo(task.name, array, k)
    IN IF j <= Len(array)
       THEN [task |-> Awaiting(task, j, array[j], Len(array)), stored |-> stored]
       ELSE [task |-> Return(task, "entries", task.out), stored |-> task.out]

\* mutant: the entry of the turn replaced where it stands in the array
\* iterated
PushInPlace(heap, task, pushed) ==
    [heap EXCEPT ![task.over] =
        [i \in 1..Len(@) |-> IF i = task.at /\ pushed # <<>> THEN pushed[1] ELSE @[i]]]

\* files.push(newEntry): the new entry goes on the local array of the call
Push(heap, task, pushed) ==
    [heap EXCEPT ![task.out] = @ \o pushed]

\* compress, decompress, modifyEntries, addExtra up to the first await
StartCollection(call) ==
    LET heap == Append(arrays, <<>>)
        task == [NewTask(call) EXCEPT !.over = stored, !.out = Len(heap)]
        next == TakeNext(task, 1, heap)
    IN /\ call.name \in CollectionOps
       /\ Len(tasks) < MaxTasks
       /\ arrays' = heap
       /\ stored' = next.stored
       /\ tasks' = Append(tasks, next.task)
       /\ entries' = arrays'[stored']
       /\ UNCHANGED <<files, disk, events, ret, op, calls, listeners, delivered>>

\* the awaited compressor, decompressor or callback settles: the turn ends
\* with its push and its event, and the loop takes the next item
ResumeCollection(t) ==
    LET task == tasks[t]
        b == Body(task.name, task.arg, task.cur)
        heap == Push(arrays, task, b.pushed)
        next == TakeNext(Emitted(task, task.at, b.events), task.at + 1, heap)
    IN /\ task.name \in CollectionOps
       /\ task.state = "awaiting"
       /\ arrays' = heap
       /\ stored' = next.stored
       /\ tasks' = [tasks EXCEPT ![t] = next.task]
       /\ entries' = arrays'[stored']
       /\ UNCHANGED <<files, disk, events, ret, op, calls, listeners, delivered>>

\* the next file of load or artifact of generate, or the return
WalkNext(task, k, kind, val) ==
    IF k <= Len(task.list)
    THEN Awaiting(task, k, task.list[k], Len(task.list))
    ELSE Return(task, kind, val)

\* load up to the analysis of its first file: the sources resolved, the
\* extensions compared, the files filtered
StartLoad(call) ==
    LET r == ResolveSources(call.arg.sources)
        selected == FilterFiles(r.files, call.arg.options)
        task == Emitted([NewTask(call) EXCEPT !.list = selected], 0, r.events)
        conflict == Event("error", "Conflicting include and exclude extensions",
                          Intersection(call.arg.options))
    IN /\ call.name = "load"
       /\ Len(tasks) < MaxTasks
       /\ tasks' = Append(tasks,
             IF Conflict(call.arg.options)
             THEN Return(Emitted(task, 0, <<conflict>>), "entries", 0)
             ELSE WalkNext(task, 1, "entries", stored))
       /\ UNCHANGED <<entries, files, disk, events, ret, op, calls, listeners,
                      delivered, arrays, stored>>

\* the analysis of the file settles: the entry is pushed on the array
\* this.entries refers to now, and load takes the next file or returns
\* this.entries
ResumeLoad(t) ==
    LET task == tasks[t]
        l == LoadLoop(<<task.cur>>, Len(task.list), task.arg.options.genTypes)
    IN /\ task.name = "load"
       /\ task.state = "awaiting"
       /\ arrays' = [arrays EXCEPT ![stored] = @ \o l.pushed]
       /\ tasks' = [tasks EXCEPT ![t] =
             WalkNext(Emitted(task, task.at, l.events), task.at + 1, "entries", stored)]
       /\ entries' = arrays'[stored]
       /\ UNCHANGED <<files, disk, events, ret, op, calls, listeners, delivered, stored>>

\* mutant: a sort of a copy, the array left as it was
SortCopy(heap, ref) == heap

\* this.entries.sort(...): the array is reordered where it stands
SortInPlace(heap, ref) == [heap EXCEPT ![ref] = SortByName(@)]

\* generate up to its first write: the test for an empty collection, the
\* sort of this.entries in place and the generator
StartGenerate(call) ==
    LET sortedEntries == SortByName(arrays[stored])
        generated == generate(sortedEntries, call.arg.options)
        task == [NewTask(call) EXCEPT !.list = generated]
        none == Event("error", "No entries to write", <<>>)
    IN /\ call.name = "generate"
       /\ Len(tasks) < MaxTasks
       /\ IF NoEntries(arrays[stored])
          THEN /\ tasks' = Append(tasks, Return(Emitted(NewTask(call), 0, <<none>>),
                                                "undefined", <<>>))
               /\ UNCHANGED <<arrays, entries>>
          ELSE /\ arrays' = SortInPlace(arrays, stored)
               /\ entries' = arrays'[stored]
               /\ tasks' = Append(tasks, WalkNext(task, 1, "files", generated))
       /\ UNCHANGED <<files, disk, events, ret, op, calls, listeners, delivered, stored>>

\* the write of an artifact settles: its event, its push on this.files, and
\* the next artifact or the return
ResumeGenerate(t) ==
    LET task == tasks[t]
        w == WriteLoop(task.arg.destination, <<task.cur>>, disk)
    IN /\ task.name = "generate"
       /\ task.state = "awaiting"
       /\ Len(files) + Len(w.pushed) <= MaxFiles
       /\ disk' = w.disk
       /\ files' = files \o w.pushed
       /\ tasks' = [tasks EXCEPT ![t] =
             WalkNext(Emitted(task, task.at, w.events), task.at + 1, "files", task.list)]
       /\ UNCHANGED <<entries, events, ret, op, calls, listeners, delivered,
                      arrays, stored>>

NextAsync ==
    \/ \E call \in AsyncCalls : StartCollection(call)
    \/ \E call \in AsyncCalls : StartLoad(call)
    \/ \E call \in AsyncCalls : StartGenerate(call)
    \/ \E t \in 1..Len(tasks) : ResumeCollection(t)
    \/ \E t \in 1..Len(tasks) : ResumeLoad(t)
    \/ \E t \in 1..Len(tasks) : ResumeGenerate(t)

SpecAsync == InitAsync /\ [][NextAsync]_vars

\* ------------------------------------------------------------------------
\* Properties of the calls that overlap
\* ------------------------------------------------------------------------

\* the tasks that took the step: the one started or the one resumed
Stepped(before, after) ==
    {t \in 1..Len(after) : t > Len(before) \/ after[t] # before[t]}

\* C26: compress, decompress, modifyEntries and addExtra never mutate in
\* place: no piece of such a call changes an array allocated before the call,
\* so a list obtained earlier and every entry in it stay as they were; the
\* call installs and returns the array it allocated itself.
C26_NoMutationInPlace ==
    [][\A t \in Stepped(tasks, tasks') :
          tasks'[t].name \in CollectionOps
          => /\ tasks'[t].out > tasks'[t].over
             /\ \A r \in 1..(tasks'[t].out - 1) :
                   r <= Len(arrays) /\ arrays'[r] = arrays[r]
             /\ tasks'[t].state = "returned"
                   => /\ stored' = tasks'[t].out
                      /\ tasks'[t].ret = Returned("entries", tasks'[t].out)]_vars

\* a compress has returned: the array obtained before it still holds the
\* entries as they were, and the collection installed differs from it
C26_Witness ==
    /\ Len(tasks) = 1
    /\ tasks[1].name = "compress"
    /\ tasks[1].state = "returned"
    /\ arrays[1] = op.before
    /\ stored = tasks[1].out
    /\ Len(arrays[stored]) = Len(arrays[1])
    /\ arrays[stored] # arrays[1]

\* the types of the events a task emitted about one item, in order
TypesAbout(task, item) ==
    LET log == SelectSeq(task.events, LAMBDA e : e.item = item)
    IN [i \in 1..Len(log) |-> log[i].event.type]

\* the events one item of the call may give: those of its success or the
\* one of its failure; decompress passes over an entry without data
ItemOutcomes(name) ==
    CASE name = "load" -> {<<"analyzed", "loaded">>, <<"error">>}
      [] name = "compress" -> {<<"compression">>, <<"error">>}
      [] name = "decompress" -> {<<"compression">>, <<"error">>, <<>>}
      [] name = "generate" -> {<<"generator">>, <<"error">>}

\* the items of a task are taken one at a time, in order
OneAtATime(task) ==
    /\ \A i, j \in 1..Len(task.events) :
          i < j => task.events[i].item <= task.events[j].item
    /\ \A k \in 1..task.at :
          k \notin task.working => TypesAbout(task, k) \in ItemOutcomes(task.name)
    /\ Cardinality(task.working) <= 1
    /\ \A k \in task.working :
          /\ TypesAbout(task, k) = <<>>
          /\ \A i \in 1..Len(task.events) : task.events[i].item < k

\* C27: within one load, compress, decompress or generate call the items are
\* processed one at a time in order: the events of an item (analyzed then
\* loaded, compression, generator or error) all come before those of the
\* next, and the work on an item starts only when the item before it has
\* completed or failed.
C27_OneItemAtATime ==
    \A t \in 1..Len(tasks) :
       tasks[t].name \in {"load", "compress", "decompress", "generate"}
       => OneAtATime(tasks[t])

\* a load at its second file, the first having failed, beside a generate
\* whose first artifact is written and whose second is under way
C27_Witness ==
    /\ Len(tasks) = 2
    /\ tasks[1].name = "load"
    /\ tasks[1].working = {2}
    /\ TypesAbout(tasks[1], 1) = <<"error">>
    /\ tasks[2].name = "generate"
    /\ tasks[2].working = {2}
    /\ TypesAbout(tasks[2], 1) = <<"generator">>

\* a load that returned after a failed and a loaded file
C27_WitnessReturned ==
    /\ \E t \in 1..Len(tasks) :
          /\ tasks[t].name = "load"
          /\ tasks[t].state = "returned"
          /\ TypesAbout(tasks[t], 1) = <<"error">>
          /\ TypesAbout(tasks[t], 2) = <<"analyzed", "loaded">>

\* ------------------------------------------------------------------------
\* The files count of the loaded events
\* ------------------------------------------------------------------------

LoadedEvents(evs) == SelectSeq(evs, LAMBDA ev : ev.type = "loaded")

C28_WitnessOne ==
    /\ Called_("load")
    /\ op.sources = <<FileC>>
    /\ LoadedEvents(events) = <<Event("loaded", "Loaded file", 1)>>
    /\ Len(entries) = 2

\* a load of a directory of two selected files: both loaded events carry 2
C28_WitnessDir ==
    /\ Called_("load")
    /\ op.sources = <<DirT>>
    /\ Len(LoadedEvents(events)) = 2
    /\ \A i \in 1..2 : LoadedEvents(events)[i].arg = 2

\* ------------------------------------------------------------------------
\* The collection across generate
\* ------------------------------------------------------------------------

\* C29: generate never adds, removes or alters an entry: its first piece
\* leaves this.entries referring to the same array, holding the same entries
\* reordered by name where they stand, its later pieces leave the array as it
\* is, and no other array changes; the order seen through a list obtained
\* before the call changes with it.
C29_GenerateReorders ==
    [][\A t \in Stepped(tasks, tasks') :
          tasks'[t].name = "generate"
          => /\ stored' = stored
             /\ Len(arrays') = Len(arrays)
             /\ \A r \in 1..Len(arrays) : r # stored => arrays'[r] = arrays[r]
             /\ IF t > Len(tasks)
                THEN IsStableSortOf(arrays'[stored], arrays[stored])
                ELSE arrays'[stored] = arrays[stored]
             /\ entries' = arrays'[stored]]_vars

\* a generate has returned its artifacts: the array obtained before the call
\* is still the stored one and holds the same two entries in another order
C29_Witness ==
    /\ Len(tasks) = 1
    /\ tasks[1].name = "generate"
    /\ tasks[1].state = "returned"
    /\ tasks[1].ret.kind = "files"
    /\ stored = 1
    /\ Len(arrays) = 1
    /\ entries = <<op.before[2], op.before[1]>>
    /\ entries # op.before

\* ------------------------------------------------------------------------
\* Two calls on one instance
\* ------------------------------------------------------------------------

\* the collection a call leaves when it runs from start to end on es with
\* nothing in between
Sequential(task, es) ==
    CASE task.name = "compress" -> CompressLoop(es).files
      [] task.name = "decompress" -> DecompressLoop(es).files
      [] task.name = "modifyEntries" -> ModifyLoop(es, task.arg.callback)
      [] task.name = "addExtra" -> ExtraLoop(es, task.arg.callback)
      [] task.name = "load" ->
            IF Conflict(task.arg.options) THEN es
            ELSE es \o LoadLoop(SelectedFiles(task.arg.sources, task.arg.options), 0,
                                task.arg.options.genTypes).pushed

\* two calls of compress, decompress, modifyEntries, addExtra and load were
\* started and both have returned
BothReturned ==
    /\ Len(tasks) = 2
    /\ \A t \in 1..2 :
          /\ tasks[t].name \in CollectionOps \cup {"load"}
          /\ tasks[t].state = "returned"

\* C30: when two of compress, decompress, modifyEntries, addExtra and load
\* on one instance have both finished, whether or not the second was started
\* before the first had returned, the collection is the one that some
\* sequential execution of the two produces.
C30_NoInterference ==
    BothReturned
    => entries \in {Sequential(tasks[2], Sequential(tasks[1], op.before)),
                    Sequential(tasks[1], Sequential(tasks[2], op.before))}

====
